---- MODULE Spec2Model ----
(***************************************************************************)
(* Control arbitration and frame broadcasting of the DREAM.AI streaming    *)
(* server: GameStreamManager (backend/api/websocket_stream.py), the        *)
(* /ws/game endpoint (backend/api/app.py) and the RL process state         *)
(* (backend/api/rl_state.py).                                              *)
(*                                                                         *)
(* The server runs on one asyncio event loop.  A coroutine runs without    *)
(* interruption between two awaits, so every action below is the code      *)
(* between two suspension points; other coroutines may run at each await   *)
(* (receive_json, send_json, asyncio.sleep).                               *)
(***************************************************************************)
EXTENDS Integers, Sequences, FiniteSets, TLC

\* ---- bounds -------------------------------------------------------------
NumConns == 2        \* websocket objects that ever reach the endpoint
NumTasks == 2        \* stream_frames tasks that are ever created
MaxSteps == 2        \* env.step calls in one behaviour
MaxResets == 1       \* reset / load_scene_dict commands in one behaviour
MaxCommands == 3     \* command messages handled in one behaviour
MaxCloses == 1        \* sockets the consumers close in one behaviour
MaxCalls == 2        \* reset / step calls the training loop makes in one behaviour
MaxInbox == 2        \* unread messages beyond which the server sends no frame
MaxOutages == 1      \* times the server goes away in one behaviour
max_steps == 2       \* RemoteThorEnv(max_steps=...), 500 when not given
MaxBacklog == 90     \* unread messages beyond which the idle client is not followed
MaxFrames == 4       \* frames run_agent_random reads in one behaviour

\* ---- program constants --------------------------------------------------
NumActions == 9      \* len(THOR_DISCRETE_ACTIONS): "action": <int 0-8>
max_retries == 30    \* _ws_async_loop
target_fps == 60     \* stream_frames(target_fps=60)
poll_timeout_ms == 500    \* self._request_q.get(timeout=0.5)

Conns == 1..NumConns
Tasks == 1..NumTasks
None == "None"
NoTask == 0
NoOwner == <<"none", 0>>

ConnOwner(c) == <<"conn", c>>
TaskOwner(t) == <<"task", t>>
Owners == {ConnOwner(c) : c \in Conns} \cup {TaskOwner(t) : t \in Tasks}

\* inputs the clients and the Environment Host can produce
ActionIndices == {-1, 0, NumActions - 1, NumActions}
ActionMessages ==
    {[has_action |-> FALSE, action |-> 0]}
        \cup {[has_action |-> TRUE, action |-> i] : i \in ActionIndices}
RoleNames == {"browser", "rl_agent", "spectator"}
\* type values no branch of the endpoint matches
UnknownTypes == {"ping", None}

StepOutcomes ==
    { [reward |-> 1, last_action_success |-> FALSE, is_success |-> None,   pose |-> "p1"],
      [reward |-> 2, last_action_success |-> TRUE,  is_success |-> "True", pose |-> "p2"] }
NoStep == CHOOSE out \in StepOutcomes : out.reward = 1
ResetPoses == {None, "p0"}

VARIABLES
    connections,        \* GameStreamManager.connections (list, in order)
    connection_roles,   \* GameStreamManager.connection_roles (dict)
    current_metrics,    \* GameStreamManager.current_metrics
    streaming,          \* GameStreamManager.streaming
    streaming_task,     \* app.streaming_task (None or a task)
    agent_running,      \* rl_state.is_rl_agent_running()
    ep,                 \* per websocket: position of its endpoint coroutine
    sock_open,          \* per websocket: the peer has not closed the socket
    task,               \* per stream_frames task: its position
    bc,                 \* per coroutine: the broadcast_frame call it is in
    host,               \* Environment Host: calls made to it
    last,               \* the command handled most recently and its reply
    lastBroadcast,      \* the broadcast_frame call that ended most recently
    calls,              \* connect / disconnect calls made so far
    handled,            \* command messages handled so far
    resolution,         \* GameStreamManager.render_width, render_height
    request_q,          \* RemoteThorEnv._request_q
    response_q,         \* RemoteThorEnv._response_q
    self_step_count,    \* RemoteThorEnv._step_count
    caller,             \* the training loop: where it is and what it got last
    ws_pc,              \* where _ws_async_loop is
    attempt,            \* the loop variable of the connection retry
    link,               \* the Bridge's connection: "none", "up" or "down"
    to_server,          \* commands sent by the Bridge, not yet read
    from_server,        \* messages sent to the Bridge, not yet received
    locals,             \* reset_result / action_result and frame_data
    server,             \* the server the Bridge talks to, as the Bridge can see it
    startup,            \* what the startup protocol sent and received, in order
    svc,                \* the request the Bridge dequeued most recently
    stop_event,         \* RemoteThorEnv._stop_event
    closer,             \* the thread that calls close(): where it is
    now,                \* frame intervals elapsed since _request_q.get began
    agent,              \* run_agent_random: where it is and what it saw
    checkpoint          \* the checkpoint file and the calls made on it

vars == <<connections, connection_roles, current_metrics, streaming,
          streaming_task, agent_running, ep, sock_open, task, bc, host,
          last, lastBroadcast, calls, handled, request_q, response_q,
          self_step_count, caller, ws_pc, attempt, link, to_server,
          from_server, locals, server, startup, svc, resolution,
          stop_event, closer, now, agent, checkpoint>>

\* the state of the Streaming Server process
serverVars == <<connections, connection_roles, current_metrics, streaming,
                streaming_task, agent_running, ep, sock_open, task, bc, host,
                last, lastBroadcast, calls, handled, resolution>>

\* the state of the Remote Environment Client process and of its connection
clientVars == <<request_q, response_q, self_step_count, caller, ws_pc, attempt,
                link, to_server, from_server, locals, server, startup, svc,
                stop_event, closer, now>>

\* the state of the agent process that runs run_agent_random
agentVars == <<agent, checkpoint>>

\* ---- helpers ------------------------------------------------------------
SeqSet(s) == {s[i] : i \in 1..Len(s)}

InList(s, x) == x \in SeqSet(s)

IndexOf(s, x) == CHOOSE i \in 1..Len(s) : s[i] = x /\ \A j \in 1..(i - 1) : s[j] # x

\* list.remove(x): drops the first occurrence
ListRemove(s, x) ==
    LET k == IndexOf(s, x)
    IN  [i \in 1..(Len(s) - 1) |-> IF i < k THEN s[i] ELSE s[i + 1]]

DictPop(d, k) == [x \in (DOMAIN d) \ {k} |-> d[x]]

DictSet(d, k, v) == [x \in (DOMAIN d) \cup {k} |-> IF x = k THEN v ELSE d[x]]

DictGet(d, k, default) == IF k \in DOMAIN d THEN d[k] ELSE default

ZeroMetrics ==
    [agent_position |-> None, episode_reward |-> 0, step_count |-> 0,
     last_action_success |-> TRUE, is_success |-> None]

\* pending: registered since the call began and not yet sent to
NoBroadcast ==
    [active |-> FALSE, idx |-> 0, disconnected |-> <<>>, pending |-> {},
     mutated |-> FALSE, control_mode |-> None]

NoReply ==
    [type |-> "none", kind |-> None, reason |-> None, reward |-> 0,
     metrics |-> ZeroMetrics]

ZeroHost ==
    [steps |-> 0, resets |-> 0, episode_steps |-> 0, episode_reward |-> 0,
     scene |-> "default"]

NoCommand ==
    [op |-> "none", role |-> None, registered |-> FALSE,
     agent_running |-> FALSE, outcome |-> "none", reply |-> NoReply,
     in_range |-> TRUE]

\* ---- rl_state -----------------------------------------------------------
is_rl_agent_running == agent_running

\* ---- Connection Registry ------------------------------------------------
\* disconnect raises ValueError when list.remove does not find the websocket
disconnect_raises(conns, ws) == ~InList(conns, ws)

disconnect_connections(conns, ws) ==
    IF disconnect_raises(conns, ws) THEN conns ELSE ListRemove(conns, ws)

disconnect_roles(conns, roles, ws) ==
    IF disconnect_raises(conns, ws) THEN roles ELSE DictPop(roles, ws)

\* set_connection_role without the membership test
set_connection_role_unguarded(conns, roles, ws, role) == DictSet(roles, ws, role)

set_connection_role(conns, roles, ws, role) ==
    IF InList(conns, ws) THEN DictSet(roles, ws, role) ELSE roles

\* a registry change seen by the broadcasts that are suspended in a send
NoteRemoved(b, removed) ==
    [o \in Owners |->
        IF b[o].active /\ removed # {}
        THEN [b[o] EXCEPT !.pending = @ \ removed, !.mutated = TRUE]
        ELSE b[o]]

NoteAdded(b) ==
    [o \in Owners |-> IF b[o].active THEN [b[o] EXCEPT !.mutated = TRUE] ELSE b[o]]

\* for conn in disconnected: self.disconnect(conn) -- stops at the first raise
RECURSIVE cleanup(_, _, _)
cleanup(conns, roles, disc) ==
    IF disc = <<>>
    THEN [connections |-> conns, roles |-> roles, raised |-> FALSE,
          ncalls |-> 0, removed |-> {}]
    ELSE IF disconnect_raises(conns, Head(disc))
    THEN [connections |-> conns, roles |-> roles, raised |-> TRUE,
          ncalls |-> 1, removed |-> {}]
    ELSE LET r == cleanup(disconnect_connections(conns, Head(disc)),
                          disconnect_roles(conns, roles, Head(disc)),
                          Tail(disc))
         IN  [r EXCEPT !.ncalls = @ + 1, !.removed = @ \cup {Head(disc)}]

\* the disconnect calls the clean-up made; the last of them is disc[r.ncalls]
cleanup_calls(k, disc, r) ==
    IF r.ncalls = 0 THEN k
    ELSE [k EXCEPT !.disconnects = @ + r.ncalls,
                   !.gone = @ \cup r.removed \cup {disc[r.ncalls]},
                   !.repeated = disc[r.ncalls] \in k.gone,
                   !.raised = r.raised]

\* ---- Control Arbiter ----------------------------------------------------
\* handle_action with the index validated before the sender is arbitrated
handle_action_outcome_index_first(has_action, action_idx, role, running) ==
    IF ~has_action THEN "error_format"
    ELSE IF ~(0 <= action_idx /\ action_idx < NumActions) THEN "error_index"
    ELSE IF running /\ role # "rl_agent" THEN "agent_control"
    ELSE IF ~running /\ role # "browser" THEN "user_control"
    ELSE "step"

\* handle_action with the second role test written against the wrong role
handle_action_outcome_swapped(has_action, action_idx, role, running) ==
    IF ~has_action THEN "error_format"
    ELSE IF running /\ role # "rl_agent" THEN "agent_control"
    ELSE IF ~running /\ role # "rl_agent" THEN "user_control"
    ELSE IF ~(0 <= action_idx /\ action_idx < NumActions) THEN "error_index"
    ELSE "step"

\* handle_action with the upper end of the index range included
handle_action_outcome_inclusive(has_action, action_idx, role, running) ==
    IF ~has_action THEN "error_format"
    ELSE IF running /\ role # "rl_agent" THEN "agent_control"
    ELSE IF ~running /\ role # "browser" THEN "user_control"
    ELSE IF ~(0 <= action_idx /\ action_idx <= NumActions) THEN "error_index"
    ELSE "step"

\* the branch handle_action takes: the checks in the order of the code
handle_action_outcome(has_action, action_idx, role, running) ==
    IF ~has_action THEN "error_format"
    ELSE IF running /\ role # "rl_agent" THEN "agent_control"
    ELSE IF ~running /\ role # "browser" THEN "user_control"
    ELSE IF ~(0 <= action_idx /\ action_idx < NumActions) THEN "error_index"
    ELSE "step"

\* step_metrics with the reward assigned instead of accumulated
step_metrics_assign(m, out) ==
    [m EXCEPT !.episode_reward = out.reward,
              !.step_count = @ + 1,
              !.last_action_success = out.last_action_success,
              !.is_success = IF out.is_success # None THEN out.is_success ELSE @,
              !.agent_position = out.pose]

\* metrics after env.step returned out
step_metrics(m, out) ==
    [m EXCEPT !.episode_reward = @ + out.reward,
              !.step_count = @ + 1,
              !.last_action_success = out.last_action_success,
              !.is_success = IF out.is_success # None THEN out.is_success ELSE @,
              !.agent_position = out.pose]

\* metrics after env.reset returned info with agent_position = pose
\* a scene load that keeps the controller it had
set_current_scene_keeps(h, scene) == h

\* self.env._controller = new_controller; self.env.set_current_scene(scene_dict)
set_current_scene(h, scene) == [h EXCEPT !.scene = scene]

reset_metrics(pose) ==
    [ZeroMetrics EXCEPT !.agent_position = IF pose # None THEN pose ELSE None]

\* handle_action with the same reason code on both skip branches
handle_action_result_one_reason(outcome, m, out) ==
    CASE outcome = "error_format"  -> [type |-> "action_result", kind |-> "error",
                                       reason |-> "Invalid action format",
                                       reward |-> 0, metrics |-> ZeroMetrics]
      [] outcome = "error_index"   -> [type |-> "action_result", kind |-> "error",
                                       reason |-> "Invalid action index",
                                       reward |-> 0, metrics |-> ZeroMetrics]
      [] outcome \in {"agent_control", "user_control"}
                                   -> [type |-> "action_result", kind |-> "skipped",
                                       reason |-> "agent_control",
                                       reward |-> 0, metrics |-> m]
      [] OTHER                     -> [type |-> "action_result", kind |-> "stepped",
                                       reason |-> None,
                                       reward |-> out.reward, metrics |-> m]

\* the dict handle_action returns
handle_action_result(outcome, m, out) ==
    CASE outcome = "error_format"  -> [type |-> "action_result", kind |-> "error",
                                       reason |-> "Invalid action format",
                                       reward |-> 0, metrics |-> ZeroMetrics]
      [] outcome = "error_index"   -> [type |-> "action_result", kind |-> "error",
                                       reason |-> "Invalid action index",
                                       reward |-> 0, metrics |-> ZeroMetrics]
      [] outcome = "agent_control" -> [type |-> "action_result", kind |-> "skipped",
                                       reason |-> "agent_control",
                                       reward |-> 0, metrics |-> m]
      [] outcome = "user_control"  -> [type |-> "action_result", kind |-> "skipped",
                                       reason |-> "user_control",
                                       reward |-> 0, metrics |-> m]
      [] OTHER                     -> [type |-> "action_result", kind |-> "stepped",
                                       reason |-> None,
                                       reward |-> out.reward, metrics |-> m]

Simple(type) ==
    [type |-> type, kind |-> None, reason |-> None, reward |-> 0,
     metrics |-> ZeroMetrics]

\* ---- Environment Host --------------------------------------------------
\* env.step returned out; episode_reward sums the rewards returned since reset
env_step(h, out) ==
    [h EXCEPT !.steps = @ + 1, !.episode_steps = @ + 1,
              !.episode_reward = @ + out.reward]

\* n calls of env.reset
env_reset(h, n) ==
    [h EXCEPT !.resets = @ + n, !.episode_steps = 0, !.episode_reward = 0]

\* ---- Remote Environment Client: messages and tuples -----------------------
\* the images the server's frames carry
Jpegs == {1, 2}

\* the indices step is called with: one of the catalogue, one past its end
StepActions == {3, NumActions}

Metrics(n) == [error |-> FALSE, step_count |-> n]
ErrorInfo == [error |-> TRUE, step_count |-> 0]

\* msg.get("data", {})
NoData == [kind |-> "none", reward |-> 0, done |-> FALSE, metrics |-> Metrics(0)]

\* "call" is not on the wire: it names the call whose command a result answers
Message(type) == [type |-> type, jpeg |-> 0, data |-> NoData, call |-> 0]
NoFrame == Message("none")
Frame(j) == [Message("frame") EXCEPT !.jpeg = j]
ResultMessage(type, data) == [Message(type) EXCEPT !.data = data]

\* the dicts handle_action and handle_reset return, as the client reads them
Stepped(reward, done, n) ==
    [kind |-> "stepped", reward |-> reward, done |-> done, metrics |-> Metrics(n)]
Skipped(n) == [NoData EXCEPT !.kind = "skipped", !.metrics = Metrics(n)]
Rejected == [NoData EXCEPT !.kind = "error"]
ResetData(n) == [NoData EXCEPT !.kind = "reset", !.metrics = Metrics(n)]

\* the (reward, done) pairs env.step gives
ServerSteps == {<<1, FALSE>>, <<2, TRUE>>}

\* the commands the Bridge sends
Command(type, action, role) ==
    [type |-> type, action |-> action, role |-> role, call |-> 0]

\* the command of the call-th reset/step call
CallCommand(type, action, call) == [Command(type, action, None) EXCEPT !.call = call]

\* the requests on _request_q
Request(typ, action) == [typ |-> typ, action |-> action]

\* observations: a decoded frame, the zero tensor of step, or None
NoObs == [kind |-> "none", jpeg |-> 0]
ZeroObs == [kind |-> "zeros", jpeg |-> 0]

\* decode, resize to (height, width), then HWC -> CHW
jpeg_to_chw(jpeg) == [kind |-> "chw", jpeg |-> jpeg]

Response(obs, reward, terminated, truncated, info) ==
    [obs |-> obs, reward |-> reward, terminated |-> terminated,
     truncated |-> truncated, info |-> info]

NoReturn == [kind |-> "none", call |-> "none",
             value |-> Response(NoObs, 0, FALSE, FALSE, Metrics(0))]

\* the except clause of the servicing loop
error_response == Response(NoObs, 0, TRUE, TRUE, ErrorInfo)

reset_response(reset_result, frame_data) ==
    Response(jpeg_to_chw(frame_data.jpeg), 0, FALSE, FALSE, reset_result.metrics)

\* step_response with a skipped result ending the episode
step_response_skip_ends(action_result, frame_data) ==
    Response(jpeg_to_chw(frame_data.jpeg), action_result.reward,
             action_result.kind = "skipped" \/ action_result.done,
             action_result.kind = "skipped" \/ action_result.done,
             action_result.metrics)

step_response(action_result, frame_data) ==
    IF action_result.kind = "skipped"
    THEN Response(jpeg_to_chw(frame_data.jpeg), 0, FALSE, FALSE,
                  action_result.metrics)
    ELSE Response(jpeg_to_chw(frame_data.jpeg), action_result.reward,
                  action_result.done, action_result.done, action_result.metrics)

\* reset_result / action_result = None, frame_data = None: with the frame of
\* the call before kept
fresh_locals_stale(old) == [result |-> NoData, frame_data |-> old.frame_data]

fresh_locals(old) == [result |-> NoData, frame_data |-> NoFrame]

\* one turn of the reset loop's body on msg
reset_recv(l, msg) ==
    IF msg.type = "reset_result" THEN [l EXCEPT !.result = msg.data]
    ELSE IF msg.type = "frame" THEN [l EXCEPT !.frame_data = msg]
    ELSE l

\* one turn of the step loop's body on msg: a result with an error is dropped
step_recv(l, msg) ==
    IF msg.type = "action_result"
    THEN IF msg.data.kind # "error" THEN [l EXCEPT !.result = msg.data] ELSE l
    ELSE IF msg.type = "frame" THEN [l EXCEPT !.frame_data = msg]
    ELSE l

\* a service loop that ends as soon as a frame is there
both_arrived_frame_only(l) == l.frame_data # NoFrame

\* the loops go on while either is None
both_arrived(l) == l.result # NoData /\ l.frame_data # NoFrame

\* the test of a startup reply, with no test at all
reply_ok_any(msg, type) == TRUE

\* msg.get("type") != "identified" / "streaming_started" raises
reply_ok(msg, type) == msg.type = type

\* reset(): _step_count = 0, and a None observation raises
reset_return(result) ==
    IF result.obs = NoObs
    THEN [kind |-> "raised", call |-> "reset", value |-> result]
    ELSE [kind |-> "returned", call |-> "reset",
          value |-> Response(result.obs, 0, FALSE, FALSE, result.info)]

\* step(): a None observation ends the episode with a zero observation, and
\* the step cap truncates
step_return(result, count) ==
    LET none == result.obs = NoObs
    IN  [kind |-> "returned", call |-> "step",
         value |-> Response(IF none THEN ZeroObs ELSE result.obs,
                            result.reward,
                            none \/ result.terminated,
                            none \/ result.truncated \/ count >= max_steps,
                            result.info)]

\* the startup protocol in the order it has to happen
StartupOrder ==
    <<"connected", "identify", "identified", "start_streaming", "streaming_started">>

NoService ==
    [typ |-> "none", outcome |-> "none", rx_result |-> FALSE, rx_frame |-> 0,
     first |-> "none", data |-> NoData, link |-> "none", reachable |-> FALSE,
     seq |-> 0, puts |-> 0, reply_for |-> 0]

\* ---- Remote Environment Client: shutdown -----------------------------------
\* the None close() puts on _request_q
Sentinel == Request("stop", 0)

\* the loop test with the stop flag ignored
loop_top_ignores_stop(stop) == "get"

\* "while not self._stop_event.is_set()": where the loop is after the test
loop_top(stop) == IF stop THEN "exited" ELSE "get"

\* Thread.is_alive()
is_alive(pc) == pc \notin {"unstarted", "dead", "exited"}

\* leaving "async with websockets.connect(...)" closes the connection
exit_link(pc, l) == IF pc = "exited" /\ l = "up" THEN "down" ELSE l

\* close() without the sentinel
close_put_nothing(q) == q

\* self._request_q.put(None)
close_put(q) == Append(q, Sentinel)

\* ---- frame messages and the resolution ------------------------------------
\* control_mode with the two values exchanged
control_mode_swapped(running) == IF running THEN "user" ELSE "agent"

control_mode(running) == IF running THEN "agent" ELSE "user"

\* {**metrics, "control_mode": control_mode}
metrics_with_mode(metrics, running) ==
    [k \in DOMAIN metrics \cup {"control_mode"} |->
        IF k = "control_mode" THEN control_mode(running) ELSE metrics[k]]

DefaultResolution == [width |-> 1280, height |-> 720]

\* the sizes set_resolution is sent: below the minimum, above it
Resolutions == {[width |-> 320, height |-> 240], [width |-> 1920, height |-> 1080]}

Max(a, b) == IF a >= b THEN a ELSE b

\* the requested values taken as they are
set_resolution_unclamped(width, height) ==
    [width |-> width, height |-> height]

set_resolution(width, height) ==
    [width |-> Max(640, width), height |-> Max(360, height)]

\* the set_resolution messages a consumer sends: values below, at and above
\* the floor, and messages that leave a value out
RequestedSizes ==
    {[width |-> w, height |-> h] : w \in {0, 639, 640, 1920}, h \in {0, 359, 360, 1080}}
        \cup {[width |-> 320], [height |-> 1080]}

\* {"type": "resolution_set", "width": render_width, "height": render_height}
resolution_reply(size) ==
    [type |-> "resolution_set", kind |-> None, reason |-> None, reward |-> 0,
     metrics |-> ZeroMetrics, width |-> size.width, height |-> size.height]

\* ---- run_agent: the checkpoint and the random-policy loop -----------------
CheckpointFiles == {"absent", "valid", "corrupt"}

\* save_checkpoint: the file is written unless the write raises
save_checkpoint(file, ok) == IF ok THEN "valid" ELSE file

\* load_checkpoint: (metrics, step_count), or (None, 0)
load_checkpoint(file) ==
    IF file = "valid" THEN [metrics |-> "saved", step_count |-> 1]
    ELSE [metrics |-> None, step_count |-> 0]

ControlModes == {"agent", "user"}

\* the messages the receive loop of run_agent_random tells apart
ResultTypes == {"action_result", "reset_result"}

\* what the frames the loop reads carry in their metrics
FrameMetrics ==
    {[control_mode |-> m, step_count |-> n, is_success |-> ok] :
        m \in ControlModes, n \in {0, max_steps - 1, max_steps}, ok \in BOOLEAN}

\* a message of the agent: json.dumps({"type": ..., ...})
AgentCommand(type, action, randomize) ==
    [type |-> type, action |-> action, randomize |-> randomize]

\* random.randint(a, b): both ends included
randint(a, b) == a..b

\* the reset sent only when the step count has passed the cap
frame_command_past_cap(metrics, action) ==
    IF metrics.is_success \/ metrics.step_count > max_steps
    THEN AgentCommand("reset", 0, TRUE)
    ELSE AgentCommand("action", action, FALSE)

\* the command the loop sends for a frame that is due
frame_command(metrics, action) ==
    IF metrics.is_success \/ metrics.step_count >= max_steps
    THEN AgentCommand("reset", 0, TRUE)
    ELSE AgentCommand("action", action, FALSE)

\* the control modes seen so far, one entry per change
observe(modes, m) ==
    IF modes # <<>> /\ modes[Len(modes)] = m THEN modes ELSE Append(modes, m)

\* ---- Init ---------------------------------------------------------------
Init ==
    /\ connections = <<>>
    /\ connection_roles = <<>>
    /\ current_metrics = ZeroMetrics
    /\ streaming = FALSE
    /\ streaming_task = NoTask
    /\ agent_running = FALSE
    /\ ep = [c \in Conns |-> "new"]
    /\ sock_open = [c \in Conns |-> TRUE]
    /\ task = [t \in Tasks |-> "unused"]
    /\ bc = [o \in Owners |-> NoBroadcast]
    /\ host = ZeroHost
    /\ last = NoCommand
    /\ lastBroadcast = [owner |-> NoOwner, failed |-> {}, missed |-> {},
                        mutated |-> FALSE, raised |-> FALSE]
    /\ calls = [connects |-> 0, disconnects |-> 0, gone |-> {},
                repeated |-> FALSE, raised |-> FALSE]
    /\ handled = 0
    /\ request_q = <<>>
    /\ response_q = <<>>
    /\ self_step_count = 0
    /\ caller = [pc |-> "new", calls |-> 0, count_at_call |-> 0,
                 called_at |-> "none", ret |-> NoReturn]
    /\ ws_pc = "unstarted"
    /\ attempt = 0
    /\ link = "none"
    /\ to_server = <<>>
    /\ from_server = <<>>
    /\ locals = fresh_locals([result |-> NoData, frame_data |-> NoFrame])
    /\ server = [reachable |-> FALSE, streaming |-> FALSE, steps |-> 0,
                 outages |-> 0]
    /\ startup = <<>>
    /\ svc = NoService
    /\ resolution = DefaultResolution
    /\ stop_event = FALSE
    /\ closer = "none"
    /\ now = 0
    /\ agent = [pc |-> "connect", sent |-> AgentCommand("none", 0, FALSE),
                modes |-> <<>>, frames |-> 0, count |-> 0]
    /\ checkpoint = [file |-> "absent", saves |-> 0, loads |-> 0]

\* ---- the endpoint leaves a handler --------------------------------------
\* await websocket.send_json(msg), the last statement of every branch; a send
\* on a closed socket raises, and the endpoint's except clause calls
\* stream_manager.disconnect(websocket) and the coroutine ends.
EndpointExit(c, conns1, roles1, b1) ==
    /\ connections' = disconnect_connections(conns1, c)
    /\ connection_roles' = disconnect_roles(conns1, roles1, c)
    /\ bc' = NoteRemoved(b1, SeqSet(conns1) \cap {c})
    /\ ep' = [ep EXCEPT ![c] = "closed"]
    /\ calls' = [calls EXCEPT !.disconnects = @ + 1,
                              !.gone = @ \cup {c},
                              !.repeated = c \in calls.gone,
                              !.raised = disconnect_raises(conns1, c)]

Finish(c, conns1, roles1, b1) ==
    IF sock_open[c]
    THEN /\ ep' = [ep EXCEPT ![c] = "open"]
         /\ connections' = conns1
         /\ connection_roles' = roles1
         /\ bc' = b1
         /\ UNCHANGED calls
    ELSE EndpointExit(c, conns1, roles1, b1)

\* what the consumer gets: nothing when the send raised
Sent(c, msg) == IF sock_open[c] THEN msg ELSE NoReply

\* ---- connect / receive loop ---------------------------------------------
\* receive_json returns a command message
Receive ==
    /\ handled < MaxCommands
    /\ handled' = handled + 1
    /\ UNCHANGED <<clientVars, agentVars>>

Connect(c) ==
    /\ ep[c] = "new"
    /\ ep' = [ep EXCEPT ![c] = "open"]
    /\ connections' = Append(connections, c)
    /\ connection_roles' = DictSet(connection_roles, c, "browser")
    /\ bc' = NoteAdded(bc)
    /\ calls' = [calls EXCEPT !.connects = @ + 1]
    /\ UNCHANGED <<current_metrics, streaming, streaming_task, agent_running,
                   sock_open, task, host, last, lastBroadcast>>
    /\ UNCHANGED <<handled, resolution, clientVars, agentVars>>

\* the consumer closes its socket (or the network drops it)
PeerClose(c) ==
    /\ ep[c] \notin {"new", "closed"}
    /\ sock_open[c]
    /\ Cardinality({d \in Conns : ~sock_open[d]}) < MaxCloses
    /\ sock_open' = [sock_open EXCEPT ![c] = FALSE]
    /\ UNCHANGED <<connections, connection_roles, current_metrics, streaming,
                   streaming_task, agent_running, ep, task, bc, host, last,
                   lastBroadcast, calls>>
    /\ UNCHANGED <<handled, resolution, clientVars, agentVars>>

\* receive_json raises WebSocketDisconnect
EndpointDisconnect(c) ==
    /\ ep[c] = "open"
    /\ ~sock_open[c]
    /\ EndpointExit(c, connections, connection_roles, bc)
    /\ UNCHANGED <<current_metrics, streaming, streaming_task, agent_running,
                   sock_open, task, host, last, lastBroadcast>>
    /\ UNCHANGED <<handled, resolution, clientVars, agentVars>>

\* rl_routes starts / stops the agent process, or the process exits
AgentStart ==
    /\ ~agent_running
    /\ agent_running' = TRUE
    /\ UNCHANGED <<connections, connection_roles, current_metrics, streaming,
                   streaming_task, ep, sock_open, task, bc, host, last, lastBroadcast, calls>>
    /\ UNCHANGED <<handled, resolution, clientVars, agentVars>>

AgentStop ==
    /\ agent_running
    /\ agent_running' = FALSE
    /\ UNCHANGED <<connections, connection_roles, current_metrics, streaming,
                   streaming_task, ep, sock_open, task, bc, host, last, lastBroadcast, calls>>
    /\ UNCHANGED <<handled, resolution, clientVars, agentVars>>

\* ---- type = "identify" --------------------------------------------------
Identify(c, role) ==
    /\ ep[c] = "open"
    /\ Receive
    /\ UNCHANGED resolution
    /\ LET known == role \in {"browser", "rl_agent"}
           roles1 == IF known
                     THEN set_connection_role(connections, connection_roles, c, role)
                     ELSE connection_roles
       IN  /\ Finish(c, connections, roles1, bc)
           /\ last' = [NoCommand EXCEPT
                          !.op = "identify", !.role = role,
                          !.registered = InList(connections, c),
                          !.agent_running = is_rl_agent_running,
                          !.reply = Sent(c, Simple(IF known THEN "identified"
                                                   ELSE "error"))]
    /\ UNCHANGED <<current_metrics, streaming, streaming_task, agent_running,
                   sock_open, task, host, lastBroadcast>>

\* ---- type = "action" ----------------------------------------------------
\* out is what env.step returns; the host is asked only when the action is stepped
HandleAction(c, data, out) ==
    /\ ep[c] = "open"
    /\ Receive
    /\ UNCHANGED resolution
    /\ LET role == DictGet(connection_roles, c, "browser")
           running == is_rl_agent_running
           outcome == handle_action_outcome(data.has_action, data.action,
                                            role, running)
           m1 == IF outcome = "step" THEN step_metrics(current_metrics, out)
                 ELSE current_metrics
       IN  /\ outcome = "step" => host.steps < MaxSteps
           /\ outcome # "step" => out = NoStep
           /\ current_metrics' = m1
           /\ host' = IF outcome = "step" THEN env_step(host, out) ELSE host
           /\ last' = [op |-> "action",
                       role |-> IF data.has_action THEN role ELSE None,
                       registered |-> InList(connections, c),
                       agent_running |-> running, outcome |-> outcome,
                       reply |-> Sent(c, handle_action_result(outcome, m1, out)),
                       in_range |-> 0 <= data.action /\ data.action < NumActions]
           /\ Finish(c, connections, connection_roles, bc)
    /\ UNCHANGED <<streaming, streaming_task, agent_running, sock_open, task,
                   lastBroadcast>>

\* ---- broadcast_frame ----------------------------------------------------
\* one turn of "for connection in self.connections": the list iterator reads
\* the element at its index in the list as it is now, then send_json is called
IterDone(b, conns) == b.idx > Len(conns)

IterSend(b, conns, socks) ==
    LET connection == conns[b.idx]
    IN  IF socks[connection]
        THEN [b EXCEPT !.idx = @ + 1, !.pending = @ \ {connection}]
        ELSE [b EXCEPT !.idx = @ + 1, !.pending = @ \ {connection},
                       !.disconnected = Append(@, connection)]

\* the call up to its first suspension
broadcast_begin(conns, socks, metrics) ==
    LET b0 == [NoBroadcast EXCEPT !.active = TRUE, !.idx = 1,
                                  !.pending = SeqSet(conns),
                                  !.control_mode = metrics["control_mode"]]
    IN  IF IterDone(b0, conns) THEN b0 ELSE IterSend(b0, conns, socks)

BroadcastRecord(o, b, raised) ==
    [owner |-> o, failed |-> SeqSet(b.disconnected), missed |-> b.pending,
     mutated |-> b.mutated, raised |-> raised]

\* resumed from a send, the loop goes on to the next connection
BroadcastSend(o) ==
    /\ bc[o].active
    /\ ~IterDone(bc[o], connections)
    /\ bc' = [bc EXCEPT ![o] = IterSend(bc[o], connections, sock_open)]
    /\ UNCHANGED <<connections, connection_roles, current_metrics, streaming,
                   streaming_task, agent_running, ep, sock_open, task, host,
                   last, lastBroadcast, calls>>
    /\ UNCHANGED <<handled, resolution, clientVars, agentVars>>

\* ---- stream_frames ------------------------------------------------------
\* the body of "while self.streaming" up to its next suspension
LoopTurn(t) ==
    IF connections # <<>>
    THEN /\ task' = [task EXCEPT ![t] = "broadcast"]
         /\ bc' = [bc EXCEPT ![TaskOwner(t)] =
                        broadcast_begin(connections, sock_open,
                               metrics_with_mode(current_metrics, is_rl_agent_running))]
    ELSE /\ task' = [task EXCEPT ![t] = "sleep"]
         /\ UNCHANGED bc

\* the event loop runs a created task for the first time
TaskStart(t) ==
    /\ task[t] = "created"
    /\ streaming' = TRUE
    /\ LoopTurn(t)
    /\ UNCHANGED <<connections, connection_roles, current_metrics,
                   streaming_task, agent_running, ep, sock_open, host, last,
                   lastBroadcast, calls>>
    /\ UNCHANGED <<handled, resolution, clientVars, agentVars>>

\* asyncio.sleep(frame_interval) returns
TaskWake(t) ==
    /\ task[t] = "sleep"
    /\ IF streaming
       THEN LoopTurn(t)
       ELSE /\ task' = [task EXCEPT ![t] = "returned"]
            /\ UNCHANGED bc
    /\ UNCHANGED <<connections, connection_roles, current_metrics, streaming,
                   streaming_task, agent_running, ep, sock_open, host, last,
                   lastBroadcast, calls>>
    /\ UNCHANGED <<handled, resolution, clientVars, agentVars>>

\* the broadcast of a stream_frames task ends: clean up, then sleep; a raise
\* in the clean-up is caught by stream_frames, which ends the loop
TaskBroadcastEnd(t) ==
    LET o == TaskOwner(t)
        r == cleanup(connections, connection_roles, bc[o].disconnected)
    IN  /\ task[t] = "broadcast"
        /\ bc[o].active
        /\ IterDone(bc[o], connections)
        /\ connections' = r.connections
        /\ connection_roles' = r.roles
        /\ bc' = [NoteRemoved(bc, r.removed) EXCEPT ![o] = NoBroadcast]
        /\ lastBroadcast' = BroadcastRecord(o, bc[o], r.raised)
        /\ calls' = cleanup_calls(calls, bc[o].disconnected, r)
        /\ task' = [task EXCEPT ![t] = IF r.raised THEN "failed" ELSE "sleep"]
        /\ streaming' = IF r.raised THEN FALSE ELSE streaming
        /\ UNCHANGED <<current_metrics, streaming_task, agent_running, ep,
                       sock_open, host, last>>
        /\ UNCHANGED <<handled, resolution, clientVars, agentVars>>

\* ---- type = "start_streaming" / "stop_streaming" ------------------------
FreeTask == CHOOSE t \in Tasks : task[t] = "unused" /\ \A u \in Tasks : task[u] = "unused" => t <= u

StartStreaming(c) ==
    /\ ep[c] = "open"
    /\ Receive
    /\ UNCHANGED resolution
    /\ IF ~streaming
       THEN /\ \E t \in Tasks : task[t] = "unused"
            /\ task' = [task EXCEPT ![FreeTask] = "created"]
            /\ streaming_task' = FreeTask
       ELSE UNCHANGED <<task, streaming_task>>
    /\ Finish(c, connections, connection_roles, bc)
    /\ last' = [NoCommand EXCEPT !.op = "start_streaming", !.registered = InList(connections, c),
                                 !.agent_running = is_rl_agent_running,
                                 !.outcome = IF streaming THEN "running" ELSE "created",
                                 !.reply = Sent(c, Simple("streaming_started"))]
    /\ UNCHANGED <<current_metrics, streaming, agent_running, sock_open, host,
                   lastBroadcast>>

\* task.cancel(): CancelledError is raised in the task at its suspension point;
\* neither broadcast_frame nor stream_frames catches it
cancelled(state) ==
    IF state \in {"created", "sleep", "broadcast"} THEN "cancelled" ELSE state

StopStreaming(c) ==
    /\ ep[c] = "open"
    /\ Receive
    /\ UNCHANGED resolution
    /\ streaming' = FALSE
    /\ IF streaming_task # NoTask
       THEN /\ task' = [task EXCEPT ![streaming_task] = cancelled(@)]
            /\ Finish(c, connections, connection_roles,
                      [bc EXCEPT ![TaskOwner(streaming_task)] = NoBroadcast])
       ELSE /\ UNCHANGED task
            /\ Finish(c, connections, connection_roles, bc)
    /\ streaming_task' = NoTask
    /\ last' = [NoCommand EXCEPT !.op = "stop_streaming", !.registered = InList(connections, c),
                                 !.agent_running = is_rl_agent_running,
                                 !.outcome = IF streaming THEN "running" ELSE "stopped",
                                 !.reply = Sent(c, Simple("streaming_stopped"))]
    /\ UNCHANGED <<current_metrics, agent_running, sock_open, host, lastBroadcast>>

\* ---- any other type ----------------------------------------------------
\* the reply names message_type (None when the message has no type field)
unknown_type_reply_fixed(message_type) ==
    [Simple("error") EXCEPT !.reason = "unknown"]

unknown_type_reply(message_type) ==
    [Simple("error") EXCEPT !.reason = message_type]

UnknownType(c, message_type) ==
    /\ ep[c] = "open"
    /\ Receive
    /\ UNCHANGED resolution
    /\ Finish(c, connections, connection_roles, bc)
    /\ last' = [NoCommand EXCEPT !.op = "unknown",
                                 !.registered = InList(connections, c),
                                 !.agent_running = is_rl_agent_running,
                                 !.reply = Sent(c, unknown_type_reply(message_type))]
    /\ UNCHANGED <<current_metrics, streaming, streaming_task, agent_running,
                   sock_open, task, host, lastBroadcast>>

\* ---- type = "reset" -----------------------------------------------------
\* handle_reset, then app.py resets the environment once more and broadcasts
\* the frame before it replies
Reset(c, pose) ==
    /\ ep[c] = "open"
    /\ Receive
    /\ UNCHANGED resolution
    /\ host.resets < 2 * MaxResets
    /\ current_metrics' = reset_metrics(pose)
    /\ host' = env_reset(host, 2)
    /\ ep' = [ep EXCEPT ![c] = "reset_broadcast"]
    /\ bc' = [bc EXCEPT ![ConnOwner(c)] =
                   broadcast_begin(connections, sock_open,
                       metrics_with_mode(reset_metrics(pose), is_rl_agent_running))]
    /\ last' = [NoCommand EXCEPT !.op = "reset", !.role = DictGet(connection_roles, c, "browser"),
                                 !.registered = InList(connections, c),
                                 !.agent_running = is_rl_agent_running,
                                 !.outcome = "reset"]
    /\ UNCHANGED <<connections, connection_roles, streaming, streaming_task,
                   agent_running, sock_open, task, lastBroadcast, calls>>

\* ---- type = "load_scene_dict" -------------------------------------------
\* ok: scene_dict is present and the new Controller is built without a raise
LoadSceneDict(c, ok) ==
    /\ ep[c] = "open"
    /\ Receive
    /\ UNCHANGED resolution
    /\ host.resets < 2 * MaxResets
    /\ last' = [NoCommand EXCEPT !.op = "load_scene_dict", !.role = DictGet(connection_roles, c, "browser"),
                                 !.registered = InList(connections, c),
                                 !.agent_running = is_rl_agent_running,
                                 !.outcome = IF ok THEN "loaded" ELSE "error",
                                 !.reply = IF ok THEN NoReply
                                           ELSE Sent(c, Simple("error"))]
    /\ IF ok
       THEN /\ current_metrics' = ZeroMetrics
            /\ host' = env_reset(set_current_scene(host, "edited"), 1)
            /\ ep' = [ep EXCEPT ![c] = "scene_broadcast"]
            /\ bc' = [bc EXCEPT ![ConnOwner(c)] =
                           broadcast_begin(connections, sock_open,
                               metrics_with_mode(ZeroMetrics, is_rl_agent_running))]
            /\ UNCHANGED <<connections, connection_roles, calls>>
       ELSE /\ Finish(c, connections, connection_roles, bc)
            /\ UNCHANGED <<current_metrics, host>>
    /\ UNCHANGED <<streaming, streaming_task, agent_running, sock_open, task,
                   lastBroadcast>>

\* the reply a reset / load_scene_dict branch sends once its broadcast is over
broadcast_reply(state) ==
    Simple(IF state = "reset_broadcast" THEN "reset_result" ELSE "scene_dict_loaded")

\* the broadcast of a reset / load_scene_dict branch ends: clean up, then the
\* reply; a raise in the clean-up goes to the endpoint's except clause
EndpointBroadcastEnd(c) ==
    LET o == ConnOwner(c)
        r == cleanup(connections, connection_roles, bc[o].disconnected)
        k == cleanup_calls(calls, bc[o].disconnected, r)
        b1 == [NoteRemoved(bc, r.removed) EXCEPT ![o] = NoBroadcast]
    IN  /\ ep[c] \in {"reset_broadcast", "scene_broadcast"}
        /\ bc[o].active
        /\ IterDone(bc[o], connections)
        /\ lastBroadcast' = BroadcastRecord(o, bc[o], r.raised)
        /\ last' = [NoCommand EXCEPT
                       !.op = IF ep[c] = "reset_broadcast" THEN "reset"
                              ELSE "load_scene_dict",
                       !.registered = InList(connections, c),
                       !.agent_running = is_rl_agent_running,
                       !.outcome = IF r.raised THEN "raised" ELSE "replied",
                       !.reply = IF r.raised THEN NoReply
                                 ELSE Sent(c, broadcast_reply(ep[c]))]
        /\ IF r.raised \/ ~sock_open[c]
           THEN /\ connections' = disconnect_connections(r.connections, c)
                /\ connection_roles' = disconnect_roles(r.connections, r.roles, c)
                /\ bc' = NoteRemoved(b1, SeqSet(r.connections) \cap {c})
                /\ ep' = [ep EXCEPT ![c] = "closed"]
                /\ calls' = [k EXCEPT !.disconnects = @ + 1,
                                      !.gone = @ \cup {c},
                                      !.repeated = c \in k.gone,
                                      !.raised = disconnect_raises(r.connections, c)]
           ELSE /\ connections' = r.connections
                /\ connection_roles' = r.roles
                /\ bc' = b1
                /\ ep' = [ep EXCEPT ![c] = "open"]
                /\ calls' = k
        /\ UNCHANGED <<current_metrics, streaming, streaming_task, agent_running,
                       sock_open, task, host>>
        /\ UNCHANGED <<handled, resolution, clientVars, agentVars>>

\* ---- type = "set_resolution" ---------------------------------------------
SetResolution(c, size) ==
    /\ ep[c] = "open"
    /\ Receive
    /\ resolution' = set_resolution(DictGet(size, "width", DefaultResolution.width),
                                    DictGet(size, "height", DefaultResolution.height))
    /\ Finish(c, connections, connection_roles, bc)
    /\ last' = [NoCommand EXCEPT !.op = "set_resolution",
                                 !.registered = InList(connections, c),
                                 !.agent_running = is_rl_agent_running,
                                 !.reply = Sent(c, resolution_reply(resolution'))]
    /\ UNCHANGED <<current_metrics, streaming, streaming_task, agent_running,
                   sock_open, task, host, lastBroadcast>>

\* ---- the Environment Host raises ------------------------------------------
\* an exception that leaves a branch of the endpoint: "except Exception" prints
\* it and calls stream_manager.disconnect(websocket); nothing is sent
Raised(c, op) ==
    /\ EndpointExit(c, connections, connection_roles, bc)
    /\ last' = [NoCommand EXCEPT !.op = op,
                                 !.role = DictGet(connection_roles, c, "browser"),
                                 !.registered = InList(connections, c),
                                 !.agent_running = is_rl_agent_running,
                                 !.outcome = "raised"]

\* env.step raises in handle_action
HandleActionRaises(c, data) ==
    /\ ep[c] = "open"
    /\ Receive
    /\ UNCHANGED resolution
    /\ handle_action_outcome(data.has_action, data.action,
                             DictGet(connection_roles, c, "browser"),
                             is_rl_agent_running) = "step"
    /\ Raised(c, "action")
    /\ UNCHANGED <<current_metrics, streaming, streaming_task, agent_running,
                   sock_open, task, host, lastBroadcast>>

\* env.reset raises: in handle_reset, after the metrics were zeroed (first), or
\* in the endpoint's own call after handle_reset returned
ResetRaises(c, pose, first) ==
    /\ ep[c] = "open"
    /\ Receive
    /\ UNCHANGED resolution
    /\ host.resets < 2 * MaxResets
    /\ current_metrics' = IF first THEN ZeroMetrics ELSE reset_metrics(pose)
    /\ host' = IF first THEN host ELSE env_reset(host, 1)
    /\ Raised(c, "reset")
    /\ UNCHANGED <<streaming, streaming_task, agent_running, sock_open, task,
                   lastBroadcast>>

\* env.render raises in stream_frames: "except Exception" ends the loop
TaskRenderRaises(t) ==
    /\ \/ task[t] = "created"
       \/ task[t] = "sleep" /\ streaming
    /\ connections # <<>>
    /\ task' = [task EXCEPT ![t] = "failed"]
    /\ streaming' = FALSE
    /\ UNCHANGED <<connections, connection_roles, current_metrics,
                   streaming_task, agent_running, ep, sock_open, bc, host, last,
                   lastBroadcast, calls>>
    /\ UNCHANGED <<handled, resolution, clientVars, agentVars>>

\* ---- RemoteThorEnv: the calls of the training loop -----------------------
\* start(): the thread is started and the call returns after a fixed sleep
Start ==
    /\ caller.pc = "new"
    /\ ws_pc' = "connect"
    /\ caller' = [caller EXCEPT !.pc = "idle"]
    /\ UNCHANGED <<request_q, response_q, self_step_count, attempt, link,
                   to_server, from_server, locals, server, startup, svc>>
    /\ UNCHANGED <<stop_event, closer, now>>
    /\ UNCHANGED <<serverVars, agentVars>>

\* reset() up to self._response_q.get()
ResetCall ==
    /\ caller.pc = "idle"
    /\ caller.calls < MaxCalls
    /\ self_step_count' = 0
    /\ request_q' = Append(request_q, Request("reset", 0))
    /\ caller' = [caller EXCEPT !.pc = "reset", !.calls = @ + 1,
                                !.count_at_call = self_step_count,
                                !.called_at = ws_pc]
    /\ UNCHANGED <<response_q, ws_pc, attempt, link, to_server, from_server,
                   locals, server, startup, svc>>
    /\ UNCHANGED <<stop_event, closer, now>>
    /\ UNCHANGED <<serverVars, agentVars>>

\* step(action) up to self._response_q.get()
StepCall(action) ==
    /\ caller.pc = "idle"
    /\ caller.calls < MaxCalls
    /\ self_step_count' = self_step_count + 1
    /\ request_q' = Append(request_q, Request("step", action))
    /\ caller' = [caller EXCEPT !.pc = "step", !.calls = @ + 1,
                                !.count_at_call = self_step_count,
                                !.called_at = ws_pc]
    /\ UNCHANGED <<response_q, ws_pc, attempt, link, to_server, from_server,
                   locals, server, startup, svc>>
    /\ UNCHANGED <<stop_event, closer, now>>
    /\ UNCHANGED <<serverVars, agentVars>>

\* self._response_q.get() returns in reset()
ResetReturn ==
    /\ caller.pc = "reset"
    /\ response_q # <<>>
    /\ response_q' = Tail(response_q)
    /\ caller' = [caller EXCEPT !.pc = "idle",
                                !.ret = reset_return(Head(response_q))]
    /\ UNCHANGED <<request_q, self_step_count, ws_pc, attempt, link, to_server,
                   from_server, locals, server, startup, svc>>
    /\ UNCHANGED <<stop_event, closer, now>>
    /\ UNCHANGED <<serverVars, agentVars>>

\* self._response_q.get() returns in step()
StepReturn ==
    /\ caller.pc = "step"
    /\ response_q # <<>>
    /\ response_q' = Tail(response_q)
    /\ caller' = [caller EXCEPT !.pc = "idle",
                                !.ret = step_return(Head(response_q),
                                                    self_step_count)]
    /\ UNCHANGED <<request_q, self_step_count, ws_pc, attempt, link, to_server,
                   from_server, locals, server, startup, svc>>
    /\ UNCHANGED <<stop_event, closer, now>>
    /\ UNCHANGED <<serverVars, agentVars>>

\* ---- RemoteThorEnv._ws_async_loop ----------------------------------------
\* one turn of the retry loop: websockets.connect, then either the identify
\* command is sent, or the loop sleeps and goes on, or the last attempt raises
ConnectAttempt ==
    /\ ws_pc = "connect"
    /\ IF server.reachable
       THEN /\ link' = "up"
            /\ to_server' = <<Command("identify", 0, "rl_agent")>>
            /\ from_server' = <<>>
            /\ ws_pc' = "identify"
            /\ startup' = <<"connected", "identify">>
            /\ UNCHANGED attempt
       ELSE /\ IF attempt < max_retries - 1
               THEN attempt' = attempt + 1 /\ UNCHANGED ws_pc
               ELSE ws_pc' = "dead" /\ UNCHANGED attempt
            /\ UNCHANGED <<link, to_server, from_server, startup>>
    /\ UNCHANGED <<request_q, response_q, self_step_count, caller, locals,
                   server, svc>>
    /\ UNCHANGED <<stop_event, closer, now>>
    /\ UNCHANGED <<serverVars, agentVars>>

\* ws.recv() after identify: the next message, whatever it is, is the reply
RecvIdentified ==
    /\ ws_pc = "identify"
    /\ IF from_server # <<>>
       THEN /\ from_server' = Tail(from_server)
            /\ IF reply_ok(Head(from_server), "identified") /\ link = "up"
               THEN /\ ws_pc' = "start_streaming"
                    /\ to_server' = Append(to_server,
                                           Command("start_streaming", 0, None))
                    /\ startup' = startup \o <<Head(from_server).type,
                                               "start_streaming">>
                    /\ UNCHANGED link
               ELSE /\ ws_pc' = "dead"
                    /\ link' = "down"
                    /\ startup' = Append(startup, Head(from_server).type)
                    /\ UNCHANGED to_server
       ELSE /\ link = "down"
            /\ ws_pc' = "dead"
            /\ UNCHANGED <<link, to_server, from_server, startup>>
    /\ UNCHANGED <<request_q, response_q, self_step_count, caller, attempt,
                   locals, server, svc>>
    /\ UNCHANGED <<stop_event, closer, now>>
    /\ UNCHANGED <<serverVars, agentVars>>

\* ws.recv() after start_streaming
RecvStreamingStarted ==
    /\ ws_pc = "start_streaming"
    /\ IF from_server # <<>>
       THEN /\ from_server' = Tail(from_server)
            /\ startup' = Append(startup, Head(from_server).type)
            /\ IF reply_ok(Head(from_server), "streaming_started")
               THEN /\ ws_pc' = loop_top(stop_event)
                    /\ link' = exit_link(loop_top(stop_event), link)
               ELSE ws_pc' = "dead" /\ link' = "down"
       ELSE /\ link = "down"
            /\ ws_pc' = "dead"
            /\ UNCHANGED <<link, from_server, startup>>
    /\ UNCHANGED <<request_q, response_q, self_step_count, caller, attempt,
                   to_server, locals, server, svc>>
    /\ UNCHANGED <<stop_event, closer, now>>
    /\ UNCHANGED <<serverVars, agentVars>>

\* self._request_q.get returns a request: the command is sent, or the send
\* raises on a closed connection and the except clause answers the call
GetRequest ==
    /\ ws_pc = "get"
    /\ request_q # <<>>
    /\ Head(request_q) # Sentinel
    /\ request_q' = Tail(request_q)
    /\ LET req == Head(request_q)
           s0 == [NoService EXCEPT !.typ = req.typ, !.link = link,
                                   !.seq = svc.seq + 1, !.puts = svc.puts,
                                   !.reachable = server.reachable]
       IN  IF link = "up"
           THEN /\ to_server' = Append(to_server,
                                 IF req.typ = "reset"
                                 THEN CallCommand("reset", 0, svc.seq + 1)
                                 ELSE CallCommand("action", req.action, svc.seq + 1))
                /\ ws_pc' = IF req.typ = "reset" THEN "reset_recv"
                            ELSE "step_recv"
                /\ locals' = fresh_locals(locals)
                /\ svc' = [s0 EXCEPT !.outcome = "pending"]
                /\ UNCHANGED response_q
           ELSE /\ response_q' = Append(response_q, error_response)
                /\ svc' = [s0 EXCEPT !.outcome = "error", !.puts = @ + 1]
                /\ ws_pc' = loop_top(stop_event)
                /\ UNCHANGED <<to_server, locals>>
    /\ UNCHANGED <<self_step_count, caller, attempt, link, from_server, server,
                   startup>>
    /\ UNCHANGED <<stop_event, closer, now>>
    /\ UNCHANGED <<serverVars, agentVars>>

\* self._request_q.get times out: one stray message is consumed
Drain ==
    /\ ws_pc = "get"
    /\ request_q = <<>>
    /\ from_server # <<>>
    /\ from_server' = Tail(from_server)
    /\ ws_pc' = loop_top(stop_event)
    /\ link' = exit_link(loop_top(stop_event), link)
    /\ UNCHANGED <<request_q, response_q, self_step_count, caller, attempt,
                   to_server, locals, server, startup, svc>>
    /\ UNCHANGED <<stop_event, closer, now>>
    /\ UNCHANGED <<serverVars, agentVars>>

\* what the Bridge has received since it sent the command: a result of the
\* command's kind that carries no error, the latest frame, and which was first
Received(s, msg) ==
    LET result == /\ msg.type = (IF s.typ = "reset" THEN "reset_result"
                                 ELSE "action_result")
                  /\ msg.data.kind # "error"
        frame == msg.type = "frame"
    IN  [s EXCEPT !.rx_result = @ \/ result,
                  !.rx_frame = IF frame THEN msg.jpeg ELSE @,
                  !.reply_for = IF result THEN msg.call ELSE @,
                  !.first = IF @ # "none" THEN @
                            ELSE IF frame THEN "frame"
                            ELSE IF result THEN "result" ELSE @]

\* ws.recv() returns in the reset or the step loop; once both the result and
\* a frame are there the tuple is put on the response queue
RecvService ==
    /\ ws_pc \in {"reset_recv", "step_recv"}
    /\ from_server # <<>>
    /\ from_server' = Tail(from_server)
    /\ LET msg == Head(from_server)
           l1 == IF ws_pc = "reset_recv" THEN reset_recv(locals, msg)
                 ELSE step_recv(locals, msg)
           s1 == Received(svc, msg)
       IN  /\ locals' = l1
           /\ IF both_arrived(l1)
              THEN /\ response_q' = Append(response_q,
                                      IF ws_pc = "reset_recv"
                                      THEN reset_response(l1.result, l1.frame_data)
                                      ELSE step_response(l1.result, l1.frame_data))
                   /\ ws_pc' = loop_top(stop_event)
                   /\ link' = exit_link(loop_top(stop_event), link)
                   /\ svc' = [s1 EXCEPT !.outcome = "done", !.data = l1.result,
                                         !.puts = @ + 1]
              ELSE /\ svc' = s1
                   /\ UNCHANGED <<response_q, ws_pc, link>>
    /\ UNCHANGED <<request_q, self_step_count, caller, attempt, to_server,
                   server, startup>>
    /\ UNCHANGED <<stop_event, closer, now>>
    /\ UNCHANGED <<serverVars, agentVars>>

\* the closed connection ends the service and nothing is put for the caller
RecvClosed_unanswered ==
    /\ ws_pc \in {"reset_recv", "step_recv"}
    /\ from_server = <<>>
    /\ link = "down"
    /\ UNCHANGED response_q
    /\ ws_pc' = loop_top(stop_event)
    /\ svc' = [svc EXCEPT !.outcome = "error"]
    /\ UNCHANGED <<request_q, self_step_count, caller, attempt, link, to_server,
                   from_server, locals, server, startup>>
    /\ UNCHANGED <<stop_event, closer, now>>
    /\ UNCHANGED <<serverVars, agentVars>>

\* ws.recv() raises ConnectionClosed in the reset or the step loop
RecvClosed ==
    /\ ws_pc \in {"reset_recv", "step_recv"}
    /\ from_server = <<>>
    /\ link = "down"
    /\ response_q' = Append(response_q, error_response)
    /\ ws_pc' = loop_top(stop_event)
    /\ svc' = [svc EXCEPT !.outcome = "error", !.puts = @ + 1]
    /\ UNCHANGED <<request_q, self_step_count, caller, attempt, link, to_server,
                   from_server, locals, server, startup>>
    /\ UNCHANGED <<stop_event, closer, now>>
    /\ UNCHANGED <<serverVars, agentVars>>

\* ---- the idle Bridge against the broadcaster's clock -----------------------
\* frames the broadcaster sends during one wait of _request_q.get
FramesPerPoll == (poll_timeout_ms * target_fps) \div 1000

\* one frame interval passes while the Bridge waits in get with no request
\* queued: the broadcaster's tick sends a frame
IdleFrame ==
    /\ ws_pc = "get"
    /\ request_q = <<>>
    /\ link = "up"
    /\ server.streaming
    /\ now < FramesPerPoll
    /\ Len(from_server) < MaxBacklog
    /\ now' = now + 1
    /\ from_server' = Append(from_server, Frame(CHOOSE j \in Jpegs : TRUE))
    /\ UNCHANGED <<request_q, response_q, self_step_count, caller, ws_pc,
                   attempt, link, to_server, locals, server, startup, svc,
                   stop_event, closer>>
    /\ UNCHANGED <<serverVars, agentVars>>

\* the get times out (queue.Empty): one message is read, if there is one, and
\* the loop goes back to the get
IdlePoll ==
    /\ ws_pc = "get"
    /\ request_q = <<>>
    /\ now = FramesPerPoll
    /\ now' = 0
    /\ from_server' = IF from_server # <<>> THEN Tail(from_server) ELSE from_server
    /\ ws_pc' = loop_top(stop_event)
    /\ link' = exit_link(loop_top(stop_event), link)
    /\ UNCHANGED <<request_q, response_q, self_step_count, caller, attempt,
                   to_server, locals, server, startup, svc, stop_event, closer>>
    /\ UNCHANGED <<serverVars, agentVars>>

\* ---- RemoteThorEnv.close ---------------------------------------------------
\* self._stop_event.set()
Close ==
    /\ closer = "none"
    /\ caller.pc # "new"
    /\ stop_event' = TRUE
    /\ closer' = "set"
    /\ UNCHANGED <<request_q, response_q, self_step_count, caller, ws_pc,
                   attempt, link, to_server, from_server, locals, server,
                   startup, svc, now>>
    /\ UNCHANGED <<serverVars, agentVars>>

\* self._request_q.put(None), then the join when the thread is alive
ClosePut ==
    /\ closer = "set"
    /\ request_q' = close_put(request_q)
    /\ closer' = IF is_alive(ws_pc) THEN "joining" ELSE "closed"
    /\ UNCHANGED <<response_q, self_step_count, caller, ws_pc, attempt, link,
                   to_server, from_server, locals, server, startup, svc,
                   stop_event, now>>
    /\ UNCHANGED <<serverVars, agentVars>>

\* join(timeout=5) returns: the thread has ended or the timeout has passed
CloseReturn ==
    /\ closer = "joining"
    /\ closer' = "closed"
    /\ UNCHANGED <<request_q, response_q, self_step_count, caller, ws_pc,
                   attempt, link, to_server, from_server, locals, server,
                   startup, svc, stop_event, now>>
    /\ UNCHANGED <<serverVars, agentVars>>

\* the request loop ends: the sentinel is dequeued, or the get times out and
\* the loop test finds the stop flag set; leaving "async with ws" closes the
\* connection
LoopExit ==
    /\ ws_pc = "get"
    /\ \/ /\ request_q # <<>>
          /\ Head(request_q) = Sentinel
          /\ request_q' = Tail(request_q)
       \/ /\ request_q = <<>>
          /\ loop_top(stop_event) = "exited"
          /\ UNCHANGED request_q
    /\ ws_pc' = "exited"
    /\ link' = exit_link("exited", link)
    /\ UNCHANGED <<response_q, self_step_count, caller, attempt, to_server,
                   from_server, locals, server, startup, svc, stop_event,
                   closer, now>>
    /\ UNCHANGED <<serverVars, agentVars>>

\* start() called again once close() has returned and the earlier thread has
\* ended: the stop flag is cleared and a new thread runs _ws_async_loop from
\* its first line; the queues are the ones made in __init__
Restart ==
    /\ closer = "closed"
    /\ caller.pc = "idle"
    /\ ~is_alive(ws_pc)
    /\ stop_event' = FALSE
    /\ ws_pc' = "connect"
    /\ attempt' = 0
    /\ closer' = "restarted"
    /\ UNCHANGED <<request_q, response_q, self_step_count, caller, link,
                   to_server, from_server, locals, server, startup, svc, now>>
    /\ UNCHANGED <<serverVars, agentVars>>

\* ---- the Streaming Server at the other end of the Bridge's connection ----
\* the server process comes up
ServerUp ==
    /\ ~server.reachable
    /\ server' = [server EXCEPT !.reachable = TRUE]
    /\ UNCHANGED <<request_q, response_q, self_step_count, caller, ws_pc,
                   attempt, link, to_server, from_server, locals, startup, svc>>
    /\ UNCHANGED <<stop_event, closer, now>>
    /\ UNCHANGED <<serverVars, agentVars>>

\* the server process goes away and the connection with it
ServerDown ==
    /\ server.reachable
    /\ server.outages < MaxOutages
    /\ server' = [reachable |-> FALSE, streaming |-> FALSE, steps |-> 0,
                  outages |-> server.outages + 1]
    /\ link' = IF link = "up" THEN "down" ELSE link
    /\ to_server' = <<>>
    /\ UNCHANGED <<request_q, response_q, self_step_count, caller, ws_pc,
                   attempt, from_server, locals, startup, svc>>
    /\ UNCHANGED <<stop_event, closer, now>>
    /\ UNCHANGED <<serverVars, agentVars>>

\* another consumer's start_streaming / stop_streaming
OtherStartStreaming ==
    /\ server.reachable
    /\ ~server.streaming
    /\ server' = [server EXCEPT !.streaming = TRUE]
    /\ UNCHANGED <<request_q, response_q, self_step_count, caller, ws_pc,
                   attempt, link, to_server, from_server, locals, startup, svc>>
    /\ UNCHANGED <<stop_event, closer, now>>
    /\ UNCHANGED <<serverVars, agentVars>>

OtherStopStreaming ==
    /\ server.reachable
    /\ server.streaming
    /\ server' = [server EXCEPT !.streaming = FALSE]
    /\ UNCHANGED <<request_q, response_q, self_step_count, caller, ws_pc,
                   attempt, link, to_server, from_server, locals, startup, svc>>
    /\ UNCHANGED <<stop_event, closer, now>>
    /\ UNCHANGED <<serverVars, agentVars>>

\* stream_frames broadcasts a frame: the Bridge's connection is registered
ServerFrame(jpeg) ==
    /\ link = "up"
    /\ server.streaming
    /\ Len(from_server) < MaxInbox
    /\ from_server' = Append(from_server, Frame(jpeg))
    /\ UNCHANGED <<request_q, response_q, self_step_count, caller, ws_pc,
                   attempt, link, to_server, locals, server, startup, svc>>
    /\ UNCHANGED <<stop_event, closer, now>>
    /\ UNCHANGED <<serverVars, agentVars>>

\* the endpoint reads the Bridge's next command
ServerReads(type) ==
    /\ link = "up"
    /\ to_server # <<>>
    /\ Head(to_server).type = type
    /\ to_server' = Tail(to_server)

ServerIdentify ==
    /\ ServerReads("identify")
    /\ from_server' = Append(from_server,
           Message(IF Head(to_server).role \in {"browser", "rl_agent"}
                   THEN "identified" ELSE "error"))
    /\ UNCHANGED <<request_q, response_q, self_step_count, caller, ws_pc,
                   attempt, link, locals, server, startup, svc>>
    /\ UNCHANGED <<stop_event, closer, now>>
    /\ UNCHANGED <<serverVars, agentVars>>

ServerStartStreaming ==
    /\ ServerReads("start_streaming")
    /\ server' = [server EXCEPT !.streaming = TRUE]
    /\ from_server' = Append(from_server, Message("streaming_started"))
    /\ UNCHANGED <<request_q, response_q, self_step_count, caller, ws_pc,
                   attempt, link, locals, startup, svc>>
    /\ UNCHANGED <<stop_event, closer, now>>
    /\ UNCHANGED <<serverVars, agentVars>>

\* the results handle_action can give for index action with n steps taken
ActionResults(action, n) ==
    {Skipped(n)} \cup
        (IF action \in 0..(NumActions - 1)
         THEN {Stepped(r[1], r[2], n + 1) : r \in ServerSteps}
         ELSE {Rejected})

ServerAction(data) ==
    /\ ServerReads("action")
    /\ data \in ActionResults(Head(to_server).action, server.steps)
    /\ server' = [server EXCEPT !.steps = IF data.kind = "stepped" THEN @ + 1
                                         ELSE @]
    /\ from_server' = Append(from_server,
           [ResultMessage("action_result", data) EXCEPT !.call = Head(to_server).call])
    /\ UNCHANGED <<request_q, response_q, self_step_count, caller, ws_pc,
                   attempt, link, locals, startup, svc>>
    /\ UNCHANGED <<stop_event, closer, now>>
    /\ UNCHANGED <<serverVars, agentVars>>

\* the reset branch: the frame is broadcast, then the result is sent
ServerReset(jpeg) ==
    /\ ServerReads("reset")
    /\ server' = [server EXCEPT !.steps = 0]
    /\ from_server' = from_server \o
           <<Frame(jpeg),
             [ResultMessage("reset_result", ResetData(0)) EXCEPT
                 !.call = Head(to_server).call]>>
    /\ UNCHANGED <<request_q, response_q, self_step_count, caller, ws_pc,
                   attempt, link, locals, startup, svc>>
    /\ UNCHANGED <<stop_event, closer, now>>
    /\ UNCHANGED <<serverVars, agentVars>>

\* the results the server can send for some action
AllActionResults ==
    UNION {ActionResults(a, n) : a \in StepActions, n \in 0..MaxCalls}

\* ---- run_agent_random ------------------------------------------------------
\* websockets.connect: identify is sent, or the connect raises and the loop
\* sleeps before it connects again
RandomConnect(ok) ==
    /\ agent.pc = "connect"
    /\ agent' = IF ok THEN [agent EXCEPT !.pc = "identify", !.sent = AgentCommand("identify", 0, FALSE)]
                ELSE [agent EXCEPT !.pc = "sleep"]
    /\ UNCHANGED checkpoint
    /\ UNCHANGED <<serverVars, clientVars>>

\* the reply to identify: a type other than "identified" is printed only
RandomIdentified ==
    /\ agent.pc = "identify"
    /\ agent' = [agent EXCEPT !.pc = "start_streaming", !.sent = AgentCommand("start_streaming", 0, FALSE)]
    /\ UNCHANGED checkpoint
    /\ UNCHANGED <<serverVars, clientVars>>

\* the reply to start_streaming, handled the same way
RandomStreamingStarted ==
    /\ agent.pc = "start_streaming"
    /\ agent' = [agent EXCEPT !.pc = "recv"]
    /\ UNCHANGED checkpoint
    /\ UNCHANGED <<serverVars, clientVars>>

\* ws.recv() returns a result: continue
RandomResult(type) ==
    /\ agent.pc = "recv"
    /\ type \in ResultTypes
    /\ UNCHANGED <<agent, checkpoint>>
    /\ UNCHANGED <<serverVars, clientVars>>

\* ws.recv() returns a frame: when min_interval has passed (due) a reset or a
\* random action is sent; the metrics are used for nothing else
RandomFrame(metrics, due, action) ==
    /\ agent.pc = "recv"
    /\ agent.frames < MaxFrames
    /\ agent' = [agent EXCEPT
                    !.frames = @ + 1,
                    !.modes = observe(@, metrics.control_mode),
                    !.sent = IF due THEN frame_command(metrics, action) ELSE @,
                    !.count = IF due THEN @ + 1 ELSE @]
    /\ UNCHANGED checkpoint
    /\ UNCHANGED <<serverVars, clientVars>>

\* ConnectionClosed or another exception ends the connection
RandomClosed ==
    /\ agent.pc \in {"identify", "start_streaming", "recv"}
    /\ agent' = [agent EXCEPT !.pc = "sleep"]
    /\ UNCHANGED checkpoint
    /\ UNCHANGED <<serverVars, clientVars>>

\* asyncio.sleep(3.0) returns and the outer loop connects again
RandomSleep ==
    /\ agent.pc = "sleep"
    /\ agent' = [agent EXCEPT !.pc = "connect"]
    /\ UNCHANGED checkpoint
    /\ UNCHANGED <<serverVars, clientVars>>

\* ---- specification ------------------------------------------------------
Next ==
    \/ \E c \in Conns : Connect(c)
    \/ \E c \in Conns : PeerClose(c)
    \/ \E c \in Conns : EndpointDisconnect(c)
    \/ AgentStart
    \/ AgentStop
    \/ \E c \in Conns, role \in RoleNames : Identify(c, role)
    \/ \E c \in Conns, data \in ActionMessages, out \in StepOutcomes :
          HandleAction(c, data, out)
    \/ \E c \in Conns, pose \in ResetPoses : Reset(c, pose)
    \/ \E c \in Conns, ok \in BOOLEAN : LoadSceneDict(c, ok)
    \/ \E c \in Conns : EndpointBroadcastEnd(c)
    \/ \E c \in Conns : StartStreaming(c)
    \/ \E c \in Conns : StopStreaming(c)
    \/ \E c \in Conns, message_type \in UnknownTypes : UnknownType(c, message_type)
    \/ \E t \in Tasks : TaskStart(t)
    \/ \E t \in Tasks : TaskWake(t)
    \/ \E t \in Tasks : TaskBroadcastEnd(t)
    \/ \E o \in Owners : BroadcastSend(o)
    \/ \E c \in Conns, size \in Resolutions : SetResolution(c, size)
    \/ \E c \in Conns, data \in ActionMessages : HandleActionRaises(c, data)
    \/ \E c \in Conns, pose \in ResetPoses, first \in BOOLEAN :
          ResetRaises(c, pose, first)
    \/ \E t \in Tasks : TaskRenderRaises(t)
    \/ Start
    \/ ResetCall
    \/ \E action \in StepActions : StepCall(action)
    \/ ResetReturn
    \/ StepReturn
    \/ ConnectAttempt
    \/ RecvIdentified
    \/ RecvStreamingStarted
    \/ GetRequest
    \/ Drain
    \/ RecvService
    \/ RecvClosed
    \/ ServerUp
    \/ ServerDown
    \/ OtherStartStreaming
    \/ OtherStopStreaming
    \/ \E jpeg \in Jpegs : ServerFrame(jpeg)
    \/ ServerIdentify
    \/ ServerStartStreaming
    \/ \E data \in AllActionResults : ServerAction(data)
    \/ \E jpeg \in Jpegs : ServerReset(jpeg)
    \/ \E ok \in BOOLEAN : RandomConnect(ok)
    \/ RandomIdentified
    \/ RandomStreamingStarted
    \/ \E type \in ResultTypes : RandomResult(type)
    \/ \E metrics \in FrameMetrics, due \in BOOLEAN,
          action \in randint(0, NumActions - 1) : RandomFrame(metrics, due, action)
    \/ RandomClosed
    \/ RandomSleep
    \/ Close
    \/ ClosePut
    \/ CloseReturn
    \/ LoopExit
    \/ IdleFrame
    \/ IdlePoll

Spec == Init /\ [][Next]_vars

\* the Remote Environment Client, its Bridge and the server end of the
\* Bridge's connection
NextBridge ==
    \/ Start
    \/ ResetCall
    \/ \E action \in StepActions : StepCall(action)
    \/ ResetReturn
    \/ StepReturn
    \/ ConnectAttempt
    \/ RecvIdentified
    \/ RecvStreamingStarted
    \/ GetRequest
    \/ Drain
    \/ RecvService
    \/ RecvClosed
    \/ ServerUp
    \/ ServerDown
    \/ OtherStartStreaming
    \/ OtherStopStreaming
    \/ \E jpeg \in Jpegs : ServerFrame(jpeg)
    \/ ServerIdentify
    \/ ServerStartStreaming
    \/ \E data \in AllActionResults : ServerAction(data)
    \/ \E jpeg \in Jpegs : ServerReset(jpeg)

SpecBridge == Init /\ [][NextBridge]_vars

\* the output resolution is set, by any connection, to any requested size
NextResolution ==
    \/ \E c \in Conns : Connect(c)
    \/ \E c \in Conns : PeerClose(c)
    \/ \E c \in Conns : EndpointDisconnect(c)
    \/ \E c \in Conns, size \in RequestedSizes : SetResolution(c, size)

SpecResolution == Init /\ [][NextResolution]_vars

\* the Frame Broadcaster is started and stopped: the only commands are
\* start_streaming and stop_streaming
NextResume ==
    \/ \E c \in Conns : Connect(c)
    \/ \E c \in Conns : PeerClose(c)
    \/ \E c \in Conns : EndpointDisconnect(c)
    \/ \E c \in Conns : StartStreaming(c)
    \/ \E c \in Conns : StopStreaming(c)
    \/ \E t \in Tasks : TaskStart(t)
    \/ \E t \in Tasks : TaskWake(t)
    \/ \E t \in Tasks : TaskBroadcastEnd(t)
    \/ \E t \in Tasks : BroadcastSend(TaskOwner(t))

SpecResume == Init /\ [][NextResume]_vars

\* every command that is said to leave the Metrics State alone, beside the
\* commands that write it, with the broadcaster loop running
NextMetrics ==
    \/ \E c \in Conns : Connect(c)
    \/ AgentStart
    \/ \E c \in Conns, role \in RoleNames : Identify(c, role)
    \/ \E c \in Conns, data \in ActionMessages, out \in StepOutcomes :
          HandleAction(c, data, out)
    \/ \E c \in Conns, pose \in ResetPoses : Reset(c, pose)
    \/ \E c \in Conns, ok \in BOOLEAN : LoadSceneDict(c, ok)
    \/ \E c \in Conns : EndpointBroadcastEnd(c)
    \/ \E c \in Conns : BroadcastSend(ConnOwner(c))
    \/ \E c \in Conns : StartStreaming(c)
    \/ \E c \in Conns : StopStreaming(c)
    \/ \E c \in Conns, size \in Resolutions : SetResolution(c, size)
    \/ \E t \in Tasks : TaskStart(t)
    \/ \E t \in Tasks : TaskWake(t)
    \/ \E t \in Tasks : TaskBroadcastEnd(t)
    \/ \E t \in Tasks : BroadcastSend(TaskOwner(t))

SpecMetrics == Init /\ [][NextMetrics]_vars

\* the Remote Environment Client is started and then left idle while the
\* server streams: the training loop makes no call
NextIdle ==
    \/ Start
    \/ ServerUp
    \/ ConnectAttempt
    \/ ServerIdentify
    \/ RecvIdentified
    \/ ServerStartStreaming
    \/ RecvStreamingStarted
    \/ IdleFrame
    \/ IdlePoll

SpecIdle == Init /\ [][NextIdle]_vars

\* the Remote Environment Client is closed: a server that stays up, calls of
\* the training loop, and close() called from another thread at any moment.
\* close() is straight-line code and the Bridge thread keeps running, so
\* their steps are taken once they can be.
NextClose ==
    \/ Start
    \/ \E action \in {NumActions} : StepCall(action)
    \/ StepReturn
    \/ ConnectAttempt
    \/ RecvIdentified
    \/ RecvStreamingStarted
    \/ GetRequest
    \/ Drain
    \/ RecvService
    \/ ServerUp
    \/ OtherStopStreaming
    \/ \E jpeg \in {CHOOSE j \in Jpegs : TRUE} : ServerFrame(jpeg)
    \/ ServerIdentify
    \/ ServerStartStreaming
    \/ \E data \in AllActionResults : ServerAction(data)
    \/ Close
    \/ ClosePut
    \/ CloseReturn
    \/ LoopExit

SpecClose ==
    /\ Init
    /\ [][NextClose]_vars
    /\ WF_vars(ClosePut)
    /\ WF_vars(CloseReturn)
    /\ WF_vars(LoopExit)

\* the Remote Environment Client is closed and started again: a server that
\* stays up and streams to the Bridge alone, step calls of the training loop,
\* close() at any moment and start() after it
NextRestart ==
    \/ Start
    \/ \E action \in {NumActions - 1} : StepCall(action)
    \/ StepReturn
    \/ ConnectAttempt
    \/ RecvIdentified
    \/ RecvStreamingStarted
    \/ GetRequest
    \/ Drain
    \/ RecvService
    \/ ServerUp
    \/ \E jpeg \in {CHOOSE j \in Jpegs : TRUE} : ServerFrame(jpeg)
    \/ ServerIdentify
    \/ ServerStartStreaming
    \/ \E data \in AllActionResults : ServerAction(data)
    \/ Close
    \/ ClosePut
    \/ CloseReturn
    \/ LoopExit
    \/ Restart

SpecRestart == Init /\ [][NextRestart]_vars

\* command dispatch alone: no consumer ever sends start_streaming
NextControl ==
    \/ \E c \in Conns : Connect(c)
    \/ \E c \in Conns : PeerClose(c)
    \/ \E c \in Conns : EndpointDisconnect(c)
    \/ AgentStart
    \/ AgentStop
    \/ \E c \in Conns, role \in RoleNames : Identify(c, role)
    \/ \E c \in Conns, data \in ActionMessages, out \in StepOutcomes :
          HandleAction(c, data, out)
    \/ \E c \in Conns, pose \in ResetPoses : Reset(c, pose)
    \/ \E c \in Conns, ok \in BOOLEAN : LoadSceneDict(c, ok)
    \/ \E c \in Conns : EndpointBroadcastEnd(c)
    \/ \E c \in Conns : BroadcastSend(ConnOwner(c))

SpecControl == Init /\ [][NextControl]_vars

\* the registry and the Frame Broadcaster: consumers connect, start and stop
\* streaming, send actions and go away
NextStream ==
    \/ \E c \in Conns : Connect(c)
    \/ \E c \in Conns : PeerClose(c)
    \/ \E c \in Conns : EndpointDisconnect(c)
    \/ \E c \in Conns, out \in StepOutcomes :
          HandleAction(c, [has_action |-> TRUE, action |-> 0], out)
    \/ \E c \in Conns : StartStreaming(c)
    \/ \E c \in Conns : StopStreaming(c)
    \/ \E c \in Conns, message_type \in UnknownTypes : UnknownType(c, message_type)
    \/ \E t \in Tasks : TaskStart(t)
    \/ \E t \in Tasks : TaskWake(t)
    \/ \E t \in Tasks : TaskBroadcastEnd(t)
    \/ \E t \in Tasks : BroadcastSend(TaskOwner(t))

SpecStream == Init /\ [][NextStream]_vars

\* the registry alone: consumers connect, identify and go away while the
\* Frame Broadcaster runs
NextRegistry ==
    \/ \E c \in Conns : Connect(c)
    \/ \E c \in Conns : PeerClose(c)
    \/ \E c \in Conns : EndpointDisconnect(c)
    \/ \E c \in Conns, role \in RoleNames : Identify(c, role)
    \/ \E c \in Conns : StartStreaming(c)
    \/ \E t \in Tasks : TaskStart(t)
    \/ \E t \in Tasks : TaskWake(t)
    \/ \E t \in Tasks : TaskBroadcastEnd(t)
    \/ \E t \in Tasks : BroadcastSend(TaskOwner(t))

SpecRegistry == Init /\ [][NextRegistry]_vars

\* the Environment Host fails: a consumer streams and sends actions and
\* resets while env.step, env.reset and env.render may raise
NextFaults ==
    \/ \E c \in Conns : Connect(c)
    \/ \E c \in Conns : PeerClose(c)
    \/ \E c \in Conns : EndpointDisconnect(c)
    \/ \E c \in Conns, out \in StepOutcomes :
          HandleAction(c, [has_action |-> TRUE, action |-> 0], out)
    \/ \E c \in Conns : StartStreaming(c)
    \/ \E t \in Tasks : TaskStart(t)
    \/ \E t \in Tasks : TaskWake(t)
    \/ \E t \in Tasks : TaskBroadcastEnd(t)
    \/ \E t \in Tasks : BroadcastSend(TaskOwner(t))
    \/ \E c \in Conns, data \in ActionMessages : HandleActionRaises(c, data)
    \/ \E c \in Conns, pose \in ResetPoses, first \in BOOLEAN :
          ResetRaises(c, pose, first)
    \/ \E t \in Tasks : TaskRenderRaises(t)

SpecFaults == Init /\ [][NextFaults]_vars

\* the agent process with the random policy and the frames it is sent
NextAgent ==
    \/ \E ok \in BOOLEAN : RandomConnect(ok)
    \/ RandomIdentified
    \/ RandomStreamingStarted
    \/ \E type \in ResultTypes : RandomResult(type)
    \/ \E metrics \in FrameMetrics, due \in BOOLEAN,
          action \in randint(0, NumActions - 1) : RandomFrame(metrics, due, action)
    \/ RandomClosed
    \/ RandomSleep

SpecAgent == Init /\ [][NextAgent]_vars

TypeOK ==
    /\ handled \in 0..MaxCommands
    /\ SeqSet(connections) \subseteq Conns
    /\ DOMAIN connection_roles \subseteq Conns
    /\ streaming \in BOOLEAN
    /\ streaming_task \in Tasks \cup {NoTask}
    /\ host.steps \in 0..MaxSteps

\* ---- properties ----------------------------------------------------------
\* the role the registry gives for a sender, as handle_action reads it
RoleOf(c) == DictGet(connection_roles, c, "browser")

\* the admission rule as the specification states it
RuleAdmits(role, alive) ==
    (alive /\ role = "rl_agent") \/ (~alive /\ role = "browser")

\* outcomes in which a handler called the Environment Host and wrote metrics
MutatingOutcomes == {"step", "reset", "loaded"}

\* C1: for every sender role in {browser, rl_agent} and every value of
\* agent_is_alive, an action command passes arbitration iff (agent alive and
\* role = rl_agent) or (agent not alive and role = browser)
C1_AdmissionRule ==
    (last.op = "action" /\ last.role \in {"browser", "rl_agent"}) =>
        ((last.outcome \in {"step", "error_index"})
            <=> RuleAdmits(last.role, last.agent_running))

C1_Witness ==
    /\ last.op = "action"
    /\ last.role = "rl_agent"
    /\ last.agent_running
    /\ last.outcome = "step"

\* C2: a well-formed action that is not admitted never calls env.step and
\* leaves the metrics unchanged; its reply is a skipped result carrying the
\* current metrics, with reason agent_control when the agent is alive and
\* user_control when it is not
C2_SkippedNoMutation ==
    [][\A c \in Conns, data \in ActionMessages, out \in StepOutcomes :
         (/\ data.has_action
          /\ ~RuleAdmits(RoleOf(c), agent_running)
          /\ HandleAction(c, data, out))
         => /\ current_metrics' = current_metrics
            /\ host' = host
            /\ sock_open[c] =>
                 /\ last'.reply.type = "action_result"
                 /\ last'.reply.kind = "skipped"
                 /\ last'.reply.metrics = current_metrics
                 /\ last'.reply.reason = IF agent_running THEN "agent_control"
                                         ELSE "user_control"]_vars

C2_Witness ==
    /\ last.op = "action"
    /\ last.role = "browser"
    /\ last.agent_running
    /\ last.reply.kind = "skipped"
    /\ last.reply.reason = "agent_control"
    /\ last.reply.metrics.step_count > 0

\* C3: every state-mutating command is arbitrated: while the agent is alive no
\* command of a browser-role connection changes the host or the metrics, and
\* while it is not alive no command of an rl_agent-role connection does
C3_AllCommandsArbitrated ==
    (/\ last.op \in {"action", "reset", "load_scene_dict"}
     /\ last.role \in {"browser", "rl_agent"}
     /\ ~RuleAdmits(last.role, last.agent_running))
    => last.outcome \notin MutatingOutcomes

\* C4: each action_result of an admitted action carries the number of steps
\* the host has taken since the last reset (1..N in order) and the sum of the
\* rewards the host has returned since then
C4_StepCountAndRewardSum ==
    (last.op = "action" /\ last.outcome = "step"
        /\ last.reply.type = "action_result") =>
        /\ last.reply.kind = "stepped"
        /\ last.reply.metrics.step_count = host.episode_steps
        /\ last.reply.metrics.step_count >= 1
        /\ last.reply.metrics.episode_reward = host.episode_reward

C4_Witness ==
    /\ last.op = "action"
    /\ last.outcome = "step"
    /\ last.role = "browser"
    /\ ~last.agent_running
    /\ host.resets > 0
    /\ last.reply.metrics.step_count > 1
    /\ last.reply.metrics.episode_reward > last.reply.metrics.step_count

\* C5: the live-connection count is connects minus the connections
\* disconnected, the role map has an entry exactly for the registered
\* connections, and no role is looked up for a disconnected connection
C5_RegistryConsistent ==
    /\ Len(connections) = calls.connects - Cardinality(calls.gone)
    /\ DOMAIN connection_roles = SeqSet(connections)
    /\ (last.op = "action" /\ last.role # None) => last.registered

\* C6: a second disconnect of the same connection raises no error
C6_DisconnectIdempotent ==
    calls.repeated => ~calls.raised

\* C7: a newly connected connection has role browser; set_role overwrites the
\* role of a registered connection and changes nothing when the connection
\* is not in the registry
C7_DefaultRoleAndSetRole ==
    [][/\ \A c \in Conns : Connect(c) => connection_roles'[c] = "browser"
       /\ \A c \in Conns, role \in {"browser", "rl_agent"} :
            Identify(c, role) =>
              /\ \A d \in Conns \ {c} :
                   /\ d \in DOMAIN connection_roles' <=> d \in DOMAIN connection_roles
                   /\ d \in DOMAIN connection_roles =>
                        connection_roles'[d] = connection_roles[d]
              /\ (InList(connections, c) /\ sock_open[c]) =>
                   (c \in DOMAIN connection_roles' /\ connection_roles'[c] = role)
              /\ ~InList(connections, c) => connection_roles' = connection_roles
      ]_vars

C7_Witness ==
    /\ last.op = "identify"
    /\ last.role = "rl_agent"
    /\ ~last.registered
    /\ \E d \in Conns : d \in DOMAIN connection_roles /\ connection_roles[d] = "rl_agent"

\* C8: at most one Frame Broadcaster loop is active
ActiveLoops == {t \in Tasks : task[t] \in {"sleep", "broadcast"}}

C8_AtMostOneLoop == Cardinality(ActiveLoops) <= 1

\* C9: when a send fails during a broadcast, the failing connection is
\* deregistered, every other connection registered throughout the broadcast
\* got the frame, and the broadcast did not end in a raise (the loop goes on)
C9_SendFailureIsolated ==
    lastBroadcast.failed # {} =>
        /\ lastBroadcast.failed \cap SeqSet(connections) = {}
        /\ lastBroadcast.missed = {}
        /\ ~lastBroadcast.raised

\* C10: a connection added or removed while a broadcast is suspended in a send
\* does not abort the broadcast, and every connection registered throughout
\* it got the frame
C10_RegistryChangeDuringBroadcast ==
    lastBroadcast.mutated =>
        /\ ~lastBroadcast.raised
        /\ lastBroadcast.missed = {}

\* C18: an admitted action whose index is outside 0 .. NumActions - 1 is
\* answered with an error result, does not reach env.step and leaves the
\* metrics unchanged; env.step is called only with an index inside the range
C18_OutOfRangeRejected ==
    [][\A c \in Conns, data \in ActionMessages, out \in StepOutcomes :
         (/\ data.has_action
          /\ RuleAdmits(RoleOf(c), agent_running)
          /\ HandleAction(c, data, out))
         => IF data.action \in 0..(NumActions - 1)
            THEN host'.steps = host.steps + 1
            ELSE /\ host' = host
                 /\ current_metrics' = current_metrics
                 /\ sock_open[c] =>
                      /\ last'.reply.type = "action_result"
                      /\ last'.reply.kind = "error"
                      /\ last'.reply.reason = "Invalid action index"]_vars

C18_Witness ==
    /\ last.op = "action"
    /\ last.outcome = "error_index"
    /\ last.reply.kind = "error"
    /\ current_metrics.step_count > 0

\* C19: every command of a connection whose socket is open is answered with a
\* message to that connection: each one-step branch sends its reply, and a
\* reset / load_scene_dict branch sends its reply when its broadcast is over
C19_EveryCommandAnswered ==
    [][\A c \in Conns :
         (/\ sock_open[c]
          /\ \/ \E role \in RoleNames : Identify(c, role)
             \/ \E data \in ActionMessages, out \in StepOutcomes :
                   HandleAction(c, data, out)
             \/ \E message_type \in UnknownTypes : UnknownType(c, message_type)
             \/ StartStreaming(c)
             \/ StopStreaming(c)
             \/ LoadSceneDict(c, FALSE)
             \/ EndpointBroadcastEnd(c))
         => last'.reply.type # "none"]_vars

\* C20: a message of an unrecognized type is answered with an error reply
\* naming the type; the connection stays open and registered, and the metrics
\* and the streaming flag are unchanged
C20_UnknownTypeErrorReply ==
    [][\A c \in Conns, message_type \in UnknownTypes :
         (sock_open[c] /\ UnknownType(c, message_type))
         => /\ last'.reply.type = "error"
            /\ last'.reply.reason = message_type
            /\ ep'[c] = "open"
            /\ InList(connections', c)
            /\ connections' = connections
            /\ connection_roles' = connection_roles
            /\ current_metrics' = current_metrics
            /\ streaming' = streaming]_vars

C20_Witness ==
    /\ last.op = "unknown"
    /\ last.reply.type = "error"
    /\ last.reply.reason = "ping"
    /\ streaming
    /\ current_metrics.step_count > 0

\* C11: a reset / step call completes only after the Bridge has received,
\* since it sent the command, both the result message (one that carries no
\* error) and a frame, in either order; it completes as soon as both are
\* there, and the observation is the frame received last
C11_BothBeforeCompletion ==
    /\ svc.outcome = "done" =>
          /\ svc.rx_result
          /\ svc.rx_frame \in Jpegs
          /\ response_q # <<>> =>
                response_q[Len(response_q)].obs = jpeg_to_chw(svc.rx_frame)
    /\ ws_pc \in {"reset_recv", "step_recv"} =>
          ~(svc.rx_result /\ svc.rx_frame \in Jpegs)

C11_Witness ==
    /\ svc.typ = "step"
    /\ svc.first = "frame"
    /\ svc.outcome = "done"
    /\ caller.pc = "idle"
    /\ caller.ret.call = "step"
    /\ caller.ret.kind = "returned"
    /\ caller.ret.value.obs = jpeg_to_chw(svc.rx_frame)

\* C12: the Bridge dequeues a request only after the startup protocol has
\* run in its order: connected, identify sent, identified received,
\* start_streaming sent, streaming_started received; after any other reply
\* the thread has ended with an exception
C12_StartupBeforeService ==
    /\ (ws_pc \in {"get", "reset_recv", "step_recv"} \/ svc.typ # "none")
          => startup = StartupOrder
    /\ startup # SubSeq(StartupOrder, 1, Len(startup)) => ws_pc = "dead"

C12_Witness ==
    /\ startup = StartupOrder
    /\ svc.typ = "reset"
    /\ svc.outcome = "done"
    /\ caller.ret.kind = "returned"

\* C13: once a connection attempt has succeeded (after fewer than
\* max_retries failures) and the server has not gone away since, startup
\* does not end in a fatal error; the thread gives up without a connection
\* only when the whole attempt budget has failed
C13_RetryThenStartup ==
    /\ (startup # <<>> /\ server.outages = 0) => ws_pc # "dead"
    /\ (ws_pc = "dead" /\ startup = <<>>) => attempt = max_retries - 1

\* C14: a call made while the Bridge is retrying its connection does not
\* stay blocked after the Bridge has given up
C14_NoCallerBlockedAfterGiveUp ==
    ~(/\ ws_pc = "dead"
      /\ startup = <<>>
      /\ caller.pc \in {"reset", "step"}
      /\ caller.called_at = "connect"
      /\ response_q = <<>>)

\* C15: a call resolved by the except clause of the servicing loop returns
\* a terminal tuple with the error in its info; it does not raise
C15_ErrorResolvesAsTerminal ==
    (caller.ret.kind # "none" /\ caller.ret.value.info.error) =>
        /\ caller.ret.kind = "returned"
        /\ caller.ret.value.terminated

\* C16: a request dequeued after the connection was lost, with the server
\* reachable again, is not answered with an error: the Bridge has reconnected
C16_ReconnectsAfterLoss ==
    (svc.link = "down" /\ svc.reachable) => svc.outcome # "error"

\* C17: a step completed by a skipped action_result returns reward 0 and
\* terminated = False with the metrics of the reply as info, and the call has
\* incremented _step_count
C17_SkippedStep ==
    (/\ caller.pc = "idle"
     /\ caller.ret.call = "step"
     /\ svc.typ = "step"
     /\ svc.outcome = "done"
     /\ svc.data.kind = "skipped") =>
        /\ caller.ret.kind = "returned"
        /\ caller.ret.value.reward = 0
        /\ ~caller.ret.value.terminated
        /\ caller.ret.value.info = svc.data.metrics
        /\ self_step_count = caller.count_at_call + 1

C17_Witness ==
    /\ caller.pc = "idle"
    /\ caller.ret.call = "step"
    /\ svc.typ = "step"
    /\ svc.outcome = "done"
    /\ svc.data.kind = "skipped"
    /\ svc.data.metrics.step_count > 0
    /\ self_step_count = 2

\* C21: when env.step, env.reset or env.render raises, the sender of the
\* command gets an error reply and its connection stays registered, and the
\* Frame Broadcaster loop goes on running
C21_HostFailureReported ==
    [][/\ \A c \in Conns :
            (/\ sock_open[c]
             /\ InList(connections, c)
             /\ \/ \E data \in ActionMessages : HandleActionRaises(c, data)
                \/ \E pose \in ResetPoses, first \in BOOLEAN :
                      ResetRaises(c, pose, first))
            => /\ last'.reply.type = "error"
               /\ InList(connections', c)
       /\ \A t \in Tasks :
            TaskRenderRaises(t) => (streaming' /\ task'[t] \in {"sleep", "broadcast"})
      ]_vars

\* the times the control mode seen by the loop went from agent to user, and
\* the times it came back to agent after that
Handoffs(modes) ==
    Cardinality({i \in 1..(Len(modes) - 1) :
                    modes[i] = "agent" /\ modes[i + 1] = "user"})

Returns(modes) ==
    Cardinality({i \in 2..(Len(modes) - 1) :
                    /\ modes[i - 1] = "agent"
                    /\ modes[i] = "user"
                    /\ modes[i + 1] = "agent"})

\* C22: a checkpoint is saved exactly when the control mode seen goes from
\* agent to user, and after agent -> user -> agent exactly one save and one
\* load have been made
C22_ExactlyOnceHandoff ==
    /\ checkpoint.saves = Handoffs(agent.modes)
    /\ agent.modes = <<"agent", "user", "agent">> =>
          (checkpoint.saves = 1 /\ checkpoint.loads = 1)

\* C23: each return to agent mode after a handoff makes one load attempt and
\* further agent-mode frames make none; a missing or unreadable checkpoint
\* loads as (None, 0)
C23_LoadOnceOnAgentEntry ==
    /\ checkpoint.loads = Returns(agent.modes)
    /\ \A file \in CheckpointFiles \ {"valid"} :
          load_checkpoint(file) = [metrics |-> None, step_count |-> 0]

\* the Bridge is in _request_q.get and no request is ahead of the sentinel
IdleBridge == ws_pc = "get" /\ (request_q # <<>> => Head(request_q) = Sentinel)

\* C24: close() sets the stop flag and enqueues the sentinel; it resolves no
\* pending call; it always returns; and an idle Bridge leaves its loop once
\* close() has enqueued the sentinel
C24_CloseStopsBridge ==
    /\ [][/\ Close => stop_event'
          /\ ClosePut => (request_q' # <<>>
                          /\ request_q'[Len(request_q')] = Sentinel)
          /\ (Close \/ ClosePut \/ CloseReturn \/ LoopExit) =>
                (response_q' = response_q /\ caller' = caller)]_vars
    /\ (closer = "set") ~> (closer = "closed")
    /\ (closer = "joining" /\ IdleBridge) ~> (ws_pc = "exited")

C24_Witness ==
    /\ closer = "closed"
    /\ ws_pc = "exited"
    /\ caller.pc = "step"
    /\ response_q = <<>>
    /\ startup = StartupOrder

\* C25: the frame message of every broadcast carries control_mode, "agent"
\* exactly when the agent process is alive at the moment the message is built,
\* "user" otherwise; the message keeps it through the sends, and the Metrics
\* State never holds it
C25_ControlModeDerived ==
    /\ [][\A o \in Owners :
            /\ (~bc[o].active /\ bc'[o].active) =>
                  bc'[o].control_mode = (IF agent_running THEN "agent" ELSE "user")
            /\ (bc[o].active /\ bc'[o].active) =>
                  bc'[o].control_mode = bc[o].control_mode]_vars
    /\ []("control_mode" \notin DOMAIN current_metrics)

C25_Witness ==
    \E o \in Owners :
        /\ bc[o].active
        /\ bc[o].control_mode = "agent"
        /\ ~agent_running

\* C26: the Metrics State changes only in a step that calls the Environment
\* Host's step or reset; a broadcaster tick, identify, start_streaming,
\* stop_streaming, set_resolution, an action of a sender that is not admitted
\* and an action with no valid index leave every field as it was
C26_MetricsWrittenByStepOrReset ==
    [][/\ current_metrics' # current_metrics =>
              (host'.steps > host.steps \/ host'.resets > host.resets)
       /\ \A t \in Tasks :
              (TaskStart(t) \/ TaskWake(t) \/ TaskBroadcastEnd(t)
                 \/ BroadcastSend(TaskOwner(t)))
              => current_metrics' = current_metrics
       /\ \A c \in Conns :
              (\/ \E role \in RoleNames : Identify(c, role)
               \/ StartStreaming(c)
               \/ StopStreaming(c)
               \/ \E size \in Resolutions : SetResolution(c, size))
              => current_metrics' = current_metrics
       /\ \A c \in Conns, data \in ActionMessages, out \in StepOutcomes :
              (/\ HandleAction(c, data, out)
               /\ \/ ~RuleAdmits(RoleOf(c), agent_running)
                  \/ ~data.has_action
                  \/ data.action \notin 0..(NumActions - 1))
              => current_metrics' = current_metrics]_vars

C26_Witness ==
    /\ current_metrics.step_count > 0
    /\ last.op = "action"
    /\ last.outcome \in {"agent_control", "user_control", "error_index"}
    /\ streaming
    /\ \E t \in Tasks : lastBroadcast.owner = TaskOwner(t)

\* C27: a reset command, from any state, leaves step_count and episode_reward
\* at 0, calls the Environment Host's reset once, and its reply to a sender
\* whose socket is open is a reset_result
C27_ResetOnce ==
    [][\A c \in Conns :
          /\ (\E pose \in ResetPoses : Reset(c, pose)) =>
                /\ current_metrics'.step_count = 0
                /\ current_metrics'.episode_reward = 0
                /\ host'.resets = host.resets + 1
          /\ (EndpointBroadcastEnd(c) /\ ep[c] = "reset_broadcast"
                /\ sock_open[c] /\ last'.outcome = "replied") =>
                last'.reply.type = "reset_result"]_vars

\* the stream_frames tasks that exist and have not ended
LiveLoops == {t \in Tasks : task[t] \in {"created", "sleep", "broadcast"}}

\* C28: while stop_streaming is the last streaming command handled, no loop
\* builds or sends a frame; right after a start_streaming exactly one loop
\* exists; and a loop's tick builds a frame only when a connection is registered
C28_StoppableResumable ==
    [][/\ (last.op = "stop_streaming" /\ last' = last) =>
              \A t \in Tasks :
                  ~(task'[t] = "broadcast" /\ bc'[TaskOwner(t)] # bc[TaskOwner(t)])
       /\ \A c \in Conns :
              StartStreaming(c) => Cardinality(LiveLoops') = 1
       /\ \A t \in Tasks :
              ((TaskStart(t) \/ TaskWake(t)) /\ connections = <<>>) =>
                  ~bc'[TaskOwner(t)].active]_vars

\* the Bridge awaits a message in a service loop, and the server has nothing
\* to send: no command is unanswered and it is not streaming
NothingToArrive ==
    /\ ws_pc \in {"reset_recv", "step_recv"}
    /\ link = "up"
    /\ from_server = <<>>
    /\ to_server = <<>>
    /\ ~server.streaming

\* C29: the Bridge does not wait forever while it services a request: when
\* the message it awaits cannot arrive, it still has a step to take
C29_ServiceNeverStuck ==
    NothingToArrive => ENABLED (RecvService \/ RecvClosed)

\* C30: while no request is queued the Bridge keeps up with the frames the
\* server sends: in each wait of the poll it reads at least as many messages
\* as arrived during it, so the unread messages do not pile up
C30_IdleDrainKeepsUp ==
    [][IdlePoll => Len(from_server) - Len(from_server') >= now]_vars

C32_ResolutionFloor ==
    [][\A c \in Conns, size \in RequestedSizes :
          (SetResolution(c, size) /\ DOMAIN size = {"width", "height"}) =>
              /\ resolution'.width = (IF size.width < 640 THEN 640 ELSE size.width)
              /\ resolution'.height = (IF size.height < 360 THEN 360 ELSE size.height)
              /\ resolution'.width >= 640
              /\ resolution'.height >= 360
              /\ sock_open[c] =>
                    /\ last'.reply.type = "resolution_set"
                    /\ last'.reply.width = resolution'.width
                    /\ last'.reply.height = resolution'.height]_vars

C32_Witness ==
    /\ last.op = "set_resolution"
    /\ last.reply.type = "resolution_set"
    /\ last.reply.width = 640
    /\ last.reply.height = 1080
    /\ resolution = [width |-> 640, height |-> 1080]

\* C33: for a frame that passes the throttle the decision loop sends one
\* command: a reset with randomize when the frame's metrics show is_success
\* or a step_count at or above the cap, otherwise an action whose index is in
\* the catalogue; for a frame inside the minimum interval it sends nothing
C33_DecisionLoop ==
    [][\A metrics \in FrameMetrics, due \in BOOLEAN, action \in 0..(NumActions - 1) :
          RandomFrame(metrics, due, action) =>
              IF ~due
              THEN agent'.count = agent.count /\ agent'.sent = agent.sent
              ELSE /\ agent'.count = agent.count + 1
                   /\ IF metrics.is_success \/ ~(metrics.step_count < max_steps)
                      THEN agent'.sent.type = "reset" /\ agent'.sent.randomize
                      ELSE /\ agent'.sent.type = "action"
                           /\ agent'.sent.action \in 0..(NumActions - 1)]_vars

C33_Witness ==
    /\ agent.pc = "recv"
    /\ agent.frames > agent.count
    /\ agent.count > 1
    /\ agent.sent = AgentCommand("reset", 0, TRUE)

C35_OwnReply ==
    /\ svc.rx_result => svc.reply_for = svc.seq
    /\ \A i \in 1..Len(from_server) :
          from_server[i].type \in {"action_result", "reset_result"} =>
              /\ from_server[i].call = svc.seq
              /\ ws_pc \in {"reset_recv", "step_recv"} \/ link = "down"

C35_Witness ==
    /\ svc.seq > 1
    /\ svc.typ = "step"
    /\ svc.rx_result
    /\ svc.reply_for = svc.seq
    /\ svc.outcome = "done"
    /\ caller.pc = "idle"

\* C36: a step call returns when the server has replied to its action message
\* and frames arrive, also when the reply is a rejected action_result: once
\* the reply and a frame have both been read, the service of the step is over
C36_RejectedStepReturns ==
    (/\ ws_pc = "step_recv"
     /\ link = "up"
     /\ to_server = <<>>
     /\ \A i \in 1..Len(from_server) : from_server[i].type # "action_result")
    => locals.frame_data = NoFrame

\* C37: startup completes against a server whose broadcaster already runs: a
\* frame read while the Bridge awaits identified or streaming_started does not
\* end the Bridge
C37_FramesDuringStartup ==
    [][(/\ ws_pc \in {"identify", "start_streaming"}
        /\ link = "up"
        /\ from_server # <<>>
        /\ Head(from_server).type = "frame"
        /\ from_server' = Tail(from_server))
       => ws_pc' # "dead"]_vars

\* C38: after close() followed by start() the new Bridge services the
\* requests that follow: nothing the earlier close() left in the request
\* queue makes the new Bridge leave its loop
C38_RestartServes == closer = "restarted" => ws_pc # "exited"

\* C39: handle_action runs its checks in a fixed order: a message without an
\* action field is answered with the format error whatever the sender's role
\* and whether or not the agent runs; otherwise arbitration comes before the
\* index test, so an out-of-range index of a sender that is not admitted is
\* answered with a skipped result and not with an index error
C39_CheckOrder ==
    [][\A c \in Conns, data \in ActionMessages, out \in StepOutcomes :
         HandleAction(c, data, out) =>
            /\ ~data.has_action =>
                 /\ last'.outcome = "error_format"
                 /\ sock_open[c] => last'.reply.reason = "Invalid action format"
            /\ (/\ data.has_action
                /\ data.action \notin 0..(NumActions - 1)
                /\ ~RuleAdmits(RoleOf(c), agent_running)) =>
                 /\ last'.outcome = (IF agent_running THEN "agent_control"
                                     ELSE "user_control")
                 /\ sock_open[c] => last'.reply.kind = "skipped"]_vars

C39_Witness ==
    /\ last.op = "action"
    /\ last.role = "browser"
    /\ last.agent_running
    /\ ~last.in_range
    /\ last.outcome = "agent_control"
    /\ last.reply.kind = "skipped"

====
